---------------------------- MODULE Spec2Model ----------------------------
(***************************************************************************)
(* A model of recs.h, an archetype-based entity-component system.          *)
(*                                                                         *)
(* The World's fields are the variables.  Every private helper of the      *)
(* World (create_unsafe, destroy_unsafe, migrate, remove_from_archetype,   *)
(* ...) is an operator from a world record to a world record, written in   *)
(* the order of the statements of the source; every public operation is an *)
(* action that applies the helpers it calls.                               *)
(*                                                                         *)
(* Indices are 0-based as in the source: At(s, i) is s[i] of the source.   *)
(* A pointer to an archetype is the key mask of the archetype it points    *)
(* to (nodes of a std::unordered_map never move), nullptr is NullArch.     *)
(*                                                                         *)
(* Behaviour the C++ standard leaves undefined (a null Archetype           *)
(* reference, an index outside a vector) has no outcome the model could    *)
(* pick: the operation that runs into it ends the defined part of the run. *)
(* The world record then carries ub = TRUE and the action moves `run' to   *)
(* one of the trap values, "crashed" (the process is gone) or "corrupt"    *)
(* (it goes on with memory nobody can describe).  Nothing is enabled in a  *)
(* trap state and nothing is claimed to hold of the World in it.           *)
(***************************************************************************)
EXTENDS Bags, Integers, Sequences, FiniteSets, TLC

---------------------------------------------------------------------------
(* Bounds of the model *)

\* ids the directory may grow to (generations_.size() <= MaxIds)
MaxIds == 2
\* destroys of one slot (generations_[id] <= MaxGen; the counter is a uint32_t
\* and the bound keeps it far from its wrap at 2^32, which no run reaches)
MaxGen == 2
\* component types the client program uses; their ids are 0 .. NumComponents-1
NumComponents == 2
\* component values are 0 .. MaxValue; 0 is the value-initialised one
MaxValue == 1
\* longest template pack Cs... of add<Cs...> and remove<Cs...>
MaxPack == 2
\* callbacks registered per component and event
MaxCallbacks == 2
\* operations the client program performs in one run
MaxSteps == 6
\* client threads that call into one World
NumThreads == 2
\* the threads of an OpenMP team that are in fn at once
MaxTeam == 2
\* entities one create_batch or destroy_batch call names
MaxBatch == 2
\* types whose first use the registry model follows
NumTypes == 3

---------------------------------------------------------------------------
(* Types *)

Components == 0 .. (NumComponents - 1)
Values == 0 .. MaxValue
DefaultValue == 0
Masks == 0 .. (2 ^ NumComponents - 1)

\* nullptr of Location::arch
NullArch == -1

\* struct Entity
Entity(i, g) == [id |-> i, generation |-> g]

\* every handle: ids the directory hands out and one it never does (MaxIds)
Handles == {Entity(i, g) : i \in 0 .. MaxIds, g \in 0 .. MaxGen}

\* the template packs Cs... in the order written: sequences of distinct
\* component types
Packs ==
    {cs \in UNION {[1 .. n -> Components] : n \in 1 .. MaxPack} :
        \A i, j \in DOMAIN cs : cs[i] = cs[j] => i = j}

\* std::vector, 0-based
At(s, i) == s[i + 1]
SetAt(s, i, v) == [s EXCEPT ![i + 1] = v]
PopBack(s) == SubSeq(s, 1, Len(s) - 1)
Back(s) == s[Len(s)]
InRange(s, i) == i >= 0 /\ i < Len(s)

---------------------------------------------------------------------------
(* ArchetypeKey: a 64-bit mask *)

KeyHas(mask, id) == (mask \div (2 ^ id)) % 2 = 1
KeyAdd(mask, id) == IF KeyHas(mask, id) THEN mask ELSE mask + 2 ^ id
KeyRemove(mask, id) == IF KeyHas(mask, id) THEN mask - 2 ^ id ELSE mask

\* (new_key.add(component_id<Cs>()), ...) and (new_key.remove(...), ...)
RECURSIVE KeyAddAll(_, _)
KeyAddAll(mask, cs) ==
    IF cs = <<>> THEN mask ELSE KeyAddAll(KeyAdd(mask, Head(cs)), Tail(cs))
RECURSIVE KeyRemoveAll(_, _)
KeyRemoveAll(mask, cs) ==
    IF cs = <<>> THEN mask ELSE KeyRemoveAll(KeyRemove(mask, Head(cs)), Tail(cs))

---------------------------------------------------------------------------
(* ComponentArray: data = nullptr, or a std::vector<T>.  cap is the
   capacity() of the vector: references and pointers into it are good until
   a push finds it full and moves the elements to a larger buffer. *)

NoColumn == [data |-> FALSE, vec |-> <<>>, cap |-> 0]
\* make_array<T>(): a fresh empty vector with its function table
make_array == [data |-> TRUE, vec |-> <<>>, cap |-> 0]
\* clone_empty(proto): the table of proto, data = proto.create ? create() : nullptr
clone_empty(proto) == [data |-> proto.data, vec |-> <<>>, cap |-> 0]

\* the capacity a full vector of capacity n grows to (libstdc++:
\* size() + max(size(), 1))
grown(n) == IF n = 0 THEN 1 ELSE 2 * n

\* the capacity of a vector that started with capacity c after pushes have
\* brought it to n elements
RECURSIVE CapacityFor(_, _)
CapacityFor(c, n) == IF c >= n THEN c ELSE CapacityFor(grown(c), n)

\* d->push_back(x) of copy_element and vec->emplace_back() of
\* emplace_default: the element goes behind the last one, in a new buffer
\* when the vector is full
push_back(col, x) ==
    [col EXCEPT !.vec = Append(@, x),
                !.cap = IF Len(col.vec) = col.cap THEN grown(col.cap) ELSE col.cap]

\* struct Archetype, as get_or_create_archetype builds it
NewArchetype(key) ==
    [key |-> key, entities |-> <<>>, components |-> [c \in Components |-> NoColumn]]

\* struct Location
NullLocation == [arch |-> NullArch, index |-> 0]

\* struct EventHandlers
NoHandlers == [on_add |-> <<>>, on_remove |-> <<>>]

---------------------------------------------------------------------------
(* The World *)

VARIABLES
    generations,       \* std::vector<uint32_t> generations_
    free_ids,          \* std::vector<uint32_t> free_ids_
    archetypes,        \* std::unordered_map<uint64_t, Archetype> archetypes_
    entity_locations,  \* std::vector<Location> entity_locations_
    resources,         \* std::unordered_map<ComponentID, ResourceStorage> resources_
    event_handlers,    \* std::unordered_map<ComponentID, EventHandlers>
    fired,             \* the callbacks the latest operation invoked, in order
    run,               \* "ok", or a trap value once behaviour is undefined
    steps,             \* the operations the client has called so far
    mutex,             \* world_mutex_: the thread that holds it, 0 when free
    thr,               \* per client thread: where it is in the call it makes
    other,             \* a second World object of the program, b next to this a
    registry           \* the statics of next_component_id and component_id<T>

world_vars == <<generations, free_ids, archetypes, entity_locations,
                resources, event_handlers, fired, run>>

\* the World's fields as one record, the argument of the helpers
W ==
    [generations |-> generations, free_ids |-> free_ids,
     archetypes |-> archetypes, entity_locations |-> entity_locations,
     resources |-> resources,
     event_handlers |-> event_handlers, fired |-> <<>>, ub |-> FALSE]

\* the helper ran into undefined behaviour
Undefined(w) == [w EXCEPT !.ub = TRUE]

\* a call starts with an empty call log
Called(w) == [w EXCEPT !.fired = <<>>]

\* World() = default
EmptyWorld ==
    [generations |-> <<>>, free_ids |-> <<>>, archetypes |-> <<>>,
     entity_locations |-> <<>>,
     resources |-> <<>>,
     event_handlers |-> [c \in Components |-> NoHandlers],
     fired |-> <<>>, ub |-> FALSE]

\* the members a World object holds, apart from its mutex
Members(w) ==
    [generations |-> w.generations, free_ids |-> w.free_ids,
     archetypes |-> w.archetypes, entity_locations |-> w.entity_locations,
     resources |-> w.resources, event_handlers |-> w.event_handlers]

\* the program has no second World object yet
NoOther == [made |-> FALSE, world |-> Members(EmptyWorld)]

\* the types a program names, in no particular order of first use
Types == 0 .. (NumTypes - 1)

\* component_id<T>()'s static of T has not been initialized
Unassigned == -1

\* a thread that is not inside component_id<T>()
RegIdle == [pc |-> "idle", type |-> 0, tmp |-> 0]

\* the statics before the first use of any type: the counter of
\* next_component_id is 0, no component_id<T> has initialized its id (guard
\* 0; 1 while a thread runs the initializer, 2 once it is done), every
\* thread is outside component_id, and no thread has been handed an index
NoneRegistered ==
    [next |-> 0,
     ids |-> [T \in Types |-> Unassigned],
     guard |-> [T \in Types |-> 0],
     at |-> [t \in 1 .. NumThreads |-> RegIdle],
     got |-> [t \in 1 .. NumThreads |-> [T \in Types |-> Unassigned]]]

---------------------------------------------------------------------------
(* Internal helpers (the *_unsafe functions: the caller holds the mutex) *)

alive_unsafe(w, e) ==
    /\ e.id < Len(w.generations)
    /\ At(w.generations, e.id) = e.generation

\* the id create_unsafe takes: the tail of free_ids_, else a new slot
create_id(w) ==
    IF w.free_ids # <<>> THEN Back(w.free_ids) ELSE Len(w.generations)

\* entity_locations_.resize(n)
resize(locs, n) ==
    [i \in 1 .. n |-> IF i <= Len(locs) THEN locs[i] ELSE NullLocation]

create_unsafe(w) ==
    LET id == create_id(w)
        gens == IF w.free_ids # <<>> THEN w.generations
                ELSE Append(w.generations, 0)
        frees == IF w.free_ids # <<>> THEN PopBack(w.free_ids) ELSE w.free_ids
        locs == IF Len(w.entity_locations) <= id
                THEN resize(w.entity_locations, id + 1)
                ELSE w.entity_locations
    IN  [w EXCEPT !.generations = gens,
                  !.free_ids = frees,
                  !.entity_locations = SetAt(locs, id, NullLocation)]

\* the Entity create_unsafe returns
created(w) == Entity(create_id(w), At(create_unsafe(w).generations, create_id(w)))

\* a swap-remove that overwrites row index with the last row and leaves the
\* last row in place: move_and_pop without its pop_back
move_and_pop_keeps_last(col, index, last) ==
    [col EXCEPT !.vec = SetAt(@, index, At(@, last))]

\* move_and_pop(p, index, last) of one column
move_and_pop(col, index, last) ==
    [col EXCEPT !.vec = PopBack(SetAt(@, index, At(@, last)))]

\* a remove_from_archetype that erases the archetype its last row leaves
remove_from_archetype_erases_empty(w, e, a, index) ==
    LET arch == w.archetypes[a]
        size == Len(arch.entities)
        last == size - 1
        moved == At(arch.entities, last)
    IN  IF \/ size = 0                    \* entities[size_t(-1)], pop_back of an empty vector
           \/ index >= size               \* entities[index] outside the vector
           \/ \E id \in Components :
                /\ KeyHas(arch.key, id)
                /\ \/ ~arch.components[id].data          \* assert(comp.data)
                   \/ last >= Len(arch.components[id].vec)
                   \/ index >= Len(arch.components[id].vec)
        THEN Undefined(w)
        ELSE IF ~InRange(w.entity_locations, moved.id)
                \/ ~InRange(w.entity_locations, e.id)
        THEN Undefined(w)
        ELSE LET ents == PopBack(SetAt(arch.entities, index, moved))
                 cols == [id \in Components |->
                             IF KeyHas(arch.key, id)
                             THEN move_and_pop(arch.components[id], index, last)
                             ELSE arch.components[id]]
                 locs1 == [w.entity_locations EXCEPT ![moved.id + 1].index = index]
                 locs2 == SetAt(locs1, e.id, NullLocation)
             IN  IF ents = << >>
                 THEN [w EXCEPT !.archetypes =
                                    [k \in (DOMAIN w.archetypes) \ {a} |-> @[k]],
                                !.entity_locations = locs2]
                 ELSE [w EXCEPT !.archetypes[a].entities = ents,
                                !.archetypes[a].components = cols,
                                !.entity_locations = locs2]

\* void remove_from_archetype(Entity e, Archetype& arch, size_t index)
remove_from_archetype(w, e, a, index) ==
    LET arch == w.archetypes[a]
        size == Len(arch.entities)
        last == size - 1
        moved == At(arch.entities, last)
    IN  IF \/ size = 0                    \* entities[size_t(-1)], pop_back of an empty vector
           \/ index >= size               \* entities[index] outside the vector
           \/ \E id \in Components :
                /\ KeyHas(arch.key, id)
                /\ \/ ~arch.components[id].data          \* assert(comp.data)
                   \/ last >= Len(arch.components[id].vec)
                   \/ index >= Len(arch.components[id].vec)
        THEN Undefined(w)
        ELSE IF ~InRange(w.entity_locations, moved.id)
                \/ ~InRange(w.entity_locations, e.id)
        THEN Undefined(w)
        ELSE LET ents == PopBack(SetAt(arch.entities, index, moved))
                 cols == [id \in Components |->
                             IF KeyHas(arch.key, id)
                             THEN move_and_pop(arch.components[id], index, last)
                             ELSE arch.components[id]]
                 locs1 == [w.entity_locations EXCEPT ![moved.id + 1].index = index]
                 locs2 == SetAt(locs1, e.id, NullLocation)
             IN  [w EXCEPT !.archetypes[a].entities = ents,
                           !.archetypes[a].components = cols,
                           !.entity_locations = locs2]

\* a destroy whose alive test looks at the id and not at the generation
destroy_unsafe_any_generation(w, e) ==
    IF ~(e.id < Len(w.generations)) THEN w
    ELSE LET loc == At(w.entity_locations, e.id)
         IN  IF loc.arch = NullArch
             THEN Undefined(w)
             ELSE LET w1 == remove_from_archetype(w, e, loc.arch, loc.index)
                  IN  IF w1.ub THEN w1
                      ELSE [w1 EXCEPT
                              !.generations[e.id + 1] = @ + 1,
                              !.free_ids = Append(@, e.id)]

destroy_unsafe(w, e) ==
    IF ~alive_unsafe(w, e) THEN w
    ELSE LET loc == At(w.entity_locations, e.id)
         IN  IF loc.arch = NullArch
             THEN Undefined(w)            \* *loc.arch binds a null reference
             ELSE LET w1 == remove_from_archetype(w, e, loc.arch, loc.index)
                  IN  IF w1.ub THEN w1
                      ELSE [w1 EXCEPT
                              !.generations[e.id + 1] = @ + 1,
                              !.free_ids = Append(@, e.id)]

\* an archetype emplaced without arch.key = key: its key stays the default
get_or_create_archetype_no_key(archs, key) ==
    IF key \in DOMAIN archs THEN archs
    ELSE [k \in (DOMAIN archs) \cup {key} |->
             IF k = key THEN NewArchetype(0) ELSE archs[k]]

get_or_create_archetype(archs, key) ==
    IF key \in DOMAIN archs THEN archs
    ELSE [k \in (DOMAIN archs) \cup {key} |->
             IF k = key THEN NewArchetype(key) ELSE archs[k]]

\* (ensure_array<Cs>(new_arch), ...)
ensure_array(cols, cs) ==
    [id \in Components |->
        IF (\E i \in DOMAIN cs : cs[i] = id) /\ ~cols[id].data
        THEN make_array ELSE cols[id]]

\* the two loops of migrate over an entity that comes from old_arch: columns
\* the new archetype lacks are cloned empty from the old one, then every
\* column of new_key receives the old value or a default one
migrate_columns(w, old_arch, old_index, new_key) ==
    LET old == w.archetypes[old_arch]
        cloned == [id \in Components |->
                      LET dst == w.archetypes[new_key].components[id]
                      IN  IF KeyHas(new_key, id) /\ ~dst.data /\ KeyHas(old.key, id)
                          THEN clone_empty(old.components[id])
                          ELSE dst]
        bad == \E id \in Components :
                  /\ KeyHas(new_key, id)
                  /\ IF KeyHas(old.key, id)
                     THEN \/ ~cloned[id].data                 \* assert(dst.copy_element)
                          \/ ~old.components[id].data         \* assert(src.data)
                          \/ old_index >= Len(old.components[id].vec)   \* (*s)[src_idx]
                     ELSE ~cloned[id].data                    \* assert(dst.data)
        \* copy_element reads the source as the loop finds it: the same vector
        \* as the destination when old_arch is the new archetype
        src(id) == IF old_arch = new_key THEN cloned[id] ELSE old.components[id]
        filled == [id \in Components |->
                      IF ~KeyHas(new_key, id) THEN cloned[id]
                      ELSE IF KeyHas(old.key, id)
                      THEN push_back(cloned[id], At(src(id).vec, old_index))
                      ELSE push_back(cloned[id], DefaultValue)]
    IN  IF bad THEN Undefined(w)
        ELSE [w EXCEPT !.archetypes[new_key].components = filled]

\* the loop of migrate over an entity that has no archetype yet
migrate_defaults(w, new_key) ==
    LET cols == w.archetypes[new_key].components
    IN  IF \E id \in Components : KeyHas(new_key, id) /\ ~cols[id].data
        THEN Undefined(w)                 \* assert(comp.emplace_default && comp.data)
        ELSE [w EXCEPT !.archetypes[new_key].components =
                 [id \in Components |->
                     IF KeyHas(new_key, id)
                     THEN push_back(cols[id], DefaultValue)
                     ELSE cols[id]]]

\* the World as a callback finds it when it is invoked
Seen(w) ==
    [generations |-> w.generations, free_ids |-> w.free_ids,
     archetypes |-> w.archetypes, entity_locations |-> w.entity_locations]

\* fire_component_added<C>(e) / fire_component_removed<C>(e): callback(e) for
\* every callback of the list, in the order of the list
fire_component(w, e, c, adding) ==
    LET list == IF adding THEN w.event_handlers[c].on_add
                ELSE w.event_handlers[c].on_remove
        calls == [i \in 1 .. Len(list) |->
                     [event |-> IF adding THEN "add" ELSE "remove",
                      component |-> c, callback |-> list[i], entity |-> e,
                      at |-> Seen(w)]]
    IN  [w EXCEPT !.fired = @ \o calls]

\* (fire_component_added<Cs>(e), ...) / (fire_component_removed<Cs>(e), ...)
RECURSIVE fire_all(_, _, _, _)
fire_all(w, e, cs, adding) ==
    IF cs = <<>> THEN w
    ELSE fire_all(fire_component(w, e, Head(cs), adding), e, Tail(cs), adding)

\* migrate, its locals: the key of the archetype the entity moves to
migrate_new_key(w, e, cs, adding) ==
    LET old_arch == At(w.entity_locations, e.id).arch
        old_key == IF old_arch # NullArch THEN w.archetypes[old_arch].key ELSE 0
    IN  IF adding THEN KeyAddAll(old_key, cs) ELSE KeyRemoveAll(old_key, cs)

\* migrate, first half: the new archetype is found or created, e is pushed
\* onto its entity column and the columns of Cs are ensured; the component
\* columns have not received their row yet
migrate_begin(w, e, cs, adding) ==
    IF ~InRange(w.entity_locations, e.id)
    THEN Undefined(w)                     \* entity_locations_[e.id] outside the vector
    ELSE
    LET new_key == migrate_new_key(w, e, cs, adding)
        w1 == [w EXCEPT !.archetypes = get_or_create_archetype(@, new_key)]
        w2 == [w1 EXCEPT !.archetypes[new_key].entities = Append(@, e)]
    IN  IF adding
        THEN [w2 EXCEPT !.archetypes[new_key].components = ensure_array(@, cs)]
        ELSE w2

\* migrate, second half, on the world w3 the first half left: nothing of e's
\* directory entry or of the old archetype's key has changed in between, so
\* the locals old_arch, new_key and new_index are read back from w3
migrate_end(w3, e, cs, adding) ==
    LET loc == At(w3.entity_locations, e.id)
        old_arch == loc.arch
        new_key == migrate_new_key(w3, e, cs, adding)
        new_index == Len(w3.archetypes[new_key].entities) - 1
        w4 == IF old_arch # NullArch
              THEN LET w41 == migrate_columns(w3, old_arch, loc.index, new_key)
                   IN  IF w41.ub THEN w41
                       ELSE remove_from_archetype(w41, e, old_arch, loc.index)
              ELSE migrate_defaults(w3, new_key)
    IN  IF w4.ub THEN w4
        ELSE fire_all([w4 EXCEPT !.entity_locations =
                          SetAt(@, e.id, [arch |-> new_key, index |-> new_index])],
                      e, cs, adding)

migrate(w, e, cs, adding) ==
    LET w3 == migrate_begin(w, e, cs, adding)
    IN  IF w3.ub THEN w3 ELSE migrate_end(w3, e, cs, adding)

\* what get_unsafe<C>(e) returns: nullptr, or a pointer to row loc.index of the
\* column, which is a pointer to no element when the index is outside it
Absent == [kind |-> "absent"]
Dangling == [kind |-> "dangling"]
Value(v) == [kind |-> "value", value |-> v]

get_unsafe(w, e, c) ==
    IF ~alive_unsafe(w, e) THEN Absent
    ELSE LET loc == At(w.entity_locations, e.id)
         IN  IF loc.arch = NullArch THEN Absent
             ELSE IF ~KeyHas(w.archetypes[loc.arch].key, c) THEN Absent
             ELSE LET col == w.archetypes[loc.arch].components[c]
                  IN  IF ~col.data \/ loc.index >= Len(col.vec) THEN Dangling
                      ELSE Value(At(col.vec, loc.index))

\* World::has<C>(e)
has(w, e, c) ==
    /\ alive_unsafe(w, e)
    /\ At(w.entity_locations, e.id).arch # NullArch
    /\ KeyHas(w.archetypes[At(w.entity_locations, e.id).arch].key, c)

\* add<C>(e, args...) after the first half of migrate<C>(e, true): the
\* second half, then *comp = C{args...} through get_unsafe<C>(e)
add_value_end(w3, e, c, v) ==
    LET w1 == migrate_end(w3, e, <<c>>, TRUE)
    IN  IF w1.ub THEN w1
        ELSE LET comp == get_unsafe(w1, e, c)
                 loc == At(w1.entity_locations, e.id)
             IN  IF comp = Absent THEN w1
                 ELSE IF comp = Dangling THEN Undefined(w1)   \* a write outside the vector
                 ELSE [w1 EXCEPT !.archetypes[loc.arch].components[c].vec =
                                    SetAt(@, loc.index, v)]

\* add<C>(e, args...): migrate<C>(e, true), then *comp = C{args...}
add_value(w, e, c, v) ==
    LET w3 == migrate_begin(w, e, <<c>>, TRUE)
    IN  IF w3.ub THEN w3 ELSE add_value_end(w3, e, c, v)

\* std::vector<Entity> create_batch(size_t count): count times create_unsafe()
RECURSIVE create_batch(_, _)
create_batch(w, count) ==
    IF count = 0 THEN w ELSE create_batch(create_unsafe(w), count - 1)

\* the vector create_batch returns
RECURSIVE created_batch(_, _)
created_batch(w, count) ==
    IF count = 0 THEN <<>>
    ELSE <<created(w)>> \o created_batch(create_unsafe(w), count - 1)

\* void destroy_batch(const std::vector<Entity>&): destroy_unsafe(e) for
\* every element, in order
RECURSIVE destroy_batch(_, _)
destroy_batch(w, es) ==
    IF es = <<>> \/ w.ub THEN w
    ELSE destroy_batch(destroy_unsafe(w, Head(es)), Tail(es))

\* struct ResourceStorage once set_resource has filled it: data points at
\* the R that new R{args...} built
Stored(v) == [data |-> TRUE, value |-> v]

\* it->second.data of resources_.find(id), nullptr also when there is no entry
has_resource(w, r) == r \in DOMAIN w.resources /\ w.resources[r].data

\* the call res.destroy(res.data) of set_resource, as the call log shows it
Destroyed(r, v) == [event |-> "destroy_resource", type |-> r, value |-> v]

\* auto& res = resources_[id]; res.data = new R{args...}
store_resource(w, r, v) ==
    [w EXCEPT !.resources =
        [x \in (DOMAIN w.resources) \cup {r} |->
            IF x = r THEN Stored(v) ELSE w.resources[x]]]

\* a set_resource that does not destroy the value it replaces
set_resource_leaks(w, r, v) == store_resource(w, r, v)

\* template<typename R, typename... Args> void set_resource(Args&&... args)
set_resource(w, r, v) ==
    IF has_resource(w, r)
    THEN [store_resource(w, r, v) EXCEPT
             !.fired = Append(w.fired, Destroyed(r, w.resources[r].value))]
    ELSE store_resource(w, r, v)

\* template<typename R> R& get_resource(): what the returned reference
\* refers to; assert(it != resources_.end() && it->second.data) otherwise
get_resource(w, r) ==
    IF has_resource(w, r) THEN Value(w.resources[r].value) ELSE Dangling

\* a count of the archetypes that have members
get_archetype_count_members(w) ==
    Cardinality({k \in DOMAIN w.archetypes : w.archetypes[k].entities # <<>>})

\* get_entity_count(), get_archetype_count()
get_entity_count(w) == Len(w.generations) - Len(w.free_ids)
get_archetype_count(w) == Cardinality(DOMAIN w.archetypes)

---------------------------------------------------------------------------
(* The public operations *)

Threads == 1 .. NumThreads

\* a thread that is in no call
IdleThread ==
    [pc |-> "idle", e |-> Entity(0, 0), c |-> 0, v |-> DefaultValue,
     seen |-> {}, arch |-> NullArch, n |-> 0, i |-> 0,
     cs |-> <<>>, work |-> <<>>, held |-> <<>>]

Init ==
    /\ generations = EmptyWorld.generations
    /\ free_ids = EmptyWorld.free_ids
    /\ archetypes = EmptyWorld.archetypes
    /\ resources = EmptyWorld.resources
    /\ other = NoOther
    /\ registry = NoneRegistered
    /\ entity_locations = EmptyWorld.entity_locations
    /\ event_handlers = EmptyWorld.event_handlers
    /\ fired = <<>>
    /\ run = "ok"
    /\ steps = 0
    /\ mutex = 0
    /\ thr = [t \in Threads |-> IdleThread]

\* the World becomes w, or behaviour is undefined and the run is over
Commit(w) ==
       IF w.ub
       THEN /\ run' \in {"crashed", "corrupt"}
            /\ UNCHANGED <<generations, free_ids, archetypes, entity_locations,
                           resources, event_handlers, fired, other, registry>>
       ELSE /\ run' = "ok"
            /\ generations' = w.generations
            /\ free_ids' = w.free_ids
            /\ archetypes' = w.archetypes
            /\ entity_locations' = w.entity_locations
            /\ resources' = w.resources
            /\ event_handlers' = w.event_handlers
            /\ fired' = w.fired
            /\ UNCHANGED <<other, registry>>

\* a call by the one client thread of Spec: the operation runs to its end
Returns(w) ==
    /\ steps < MaxSteps
    /\ steps' = steps + 1
    /\ Commit(w)
    /\ UNCHANGED <<mutex, thr>>

\* the ids on the free list
FreeIds(w) == {w.free_ids[i] : i \in DOMAIN w.free_ids}

\* the handles a client can hold and pass: the ones create() has returned,
\* alive or stale by now (the generation a freed slot will hand out next has
\* not been returned yet), and handles of ids never allocated (the client
\* builds them, as Entity{0, 0} in threading_example.cpp)
ClientHandles ==
    {e \in Handles :
        e.id < Len(generations) =>
            /\ e.generation <= At(generations, e.id)
            /\ e.id \in FreeIds(W) => e.generation < At(generations, e.id)}

\* the entities create() has returned that have not been destroyed
Living == {e \in ClientHandles : alive_unsafe(W, e)}

\* a slot create_unsafe can take within the bounds
CanCreate(w) == w.free_ids # <<>> \/ Len(w.generations) < MaxIds

\* Entity create()
Create ==
    /\ run = "ok"
    /\ CanCreate(W)
    /\ Returns(create_unsafe(W))

\* void destroy(Entity e)
Destroy(e) ==
    /\ run = "ok"
    /\ alive_unsafe(W, e) => e.generation < MaxGen
    /\ Returns(destroy_unsafe(W, e))

\* template<typename... Cs> void add(Entity e)
Add(e, cs) ==
    /\ run = "ok"
    /\ Returns(migrate(W, e, cs, TRUE))

\* template<typename C, typename... Args> void add(Entity e, Args&&... args)
AddValue(e, c, v) ==
    /\ run = "ok"
    /\ Returns(add_value(W, e, c, v))

\* template<typename... Cs> void remove(Entity e)
Remove(e, cs) ==
    /\ run = "ok"
    /\ Returns(migrate(W, e, cs, FALSE))

\* the callbacks of a list, as a set
Registered(list) == {list[i] : i \in DOMAIN list}

\* on_component_added<C>(callback), on_component_removed<C>(callback); the
\* client registers a callback it has not registered for that event before
OnComponentAdded(c, cb) ==
    /\ run = "ok"
    /\ Len(event_handlers[c].on_add) < MaxCallbacks
    /\ cb \notin Registered(event_handlers[c].on_add)
    /\ Returns([W EXCEPT !.event_handlers[c].on_add = Append(@, cb)])

OnComponentRemoved(c, cb) ==
    /\ run = "ok"
    /\ Len(event_handlers[c].on_remove) < MaxCallbacks
    /\ cb \notin Registered(event_handlers[c].on_remove)
    /\ Returns([W EXCEPT !.event_handlers[c].on_remove = Append(@, cb)])

Callbacks == 1 .. MaxCallbacks

Next ==
    \/ Create
    \/ \E e \in ClientHandles : Destroy(e)
    \/ \E e \in ClientHandles, cs \in Packs : Add(e, cs)
    \/ \E e \in ClientHandles, c \in Components, v \in Values : AddValue(e, c, v)
    \/ \E e \in ClientHandles, cs \in Packs : Remove(e, cs)

vars == <<generations, free_ids, archetypes, entity_locations, resources,
          event_handlers, fired, run, steps, mutex, thr, other, registry>>

Spec == Init /\ [][Next]_vars

\* the slots create_unsafe can take within the bounds
Capacity(w) == Len(w.free_ids) + (MaxIds - Len(w.generations))

\* the vectors of handles a client passes to destroy_batch: any handles it
\* holds, stale ones and the same one twice included
Batches == UNION {[1 .. n -> ClientHandles] : n \in 0 .. MaxBatch}

\* std::vector<Entity> create_batch(size_t count)
CreateBatch(count) ==
    /\ run = "ok"
    /\ count <= Capacity(W)
    /\ Returns(create_batch(W, count))

\* void destroy_batch(const std::vector<Entity>& entities)
DestroyBatch(es) ==
    /\ run = "ok"
    /\ \A i \in DOMAIN es : alive_unsafe(W, es[i]) => es[i].generation < MaxGen
    /\ Returns(destroy_batch(W, es))

\* the client also creates and destroys in batches
NextBatch ==
    \/ Next
    \/ \E count \in 0 .. MaxBatch : CreateBatch(count)
    \/ \E es \in Batches : DestroyBatch(es)

SpecBatch == Init /\ [][NextBatch]_vars

\* set_resource<R>(args...)
SetResource(r, v) ==
    /\ run = "ok"
    /\ Returns(set_resource(W, r, v))

\* get_resource<R>(): the call log shows the value the reference refers to
GetResource(r) ==
    /\ run = "ok"
    /\ Returns(IF get_resource(W, r) = Dangling THEN Undefined(W)
               ELSE [W EXCEPT !.fired =
                       << [event |-> "get_resource", type |-> r,
                           value |-> get_resource(W, r).value] >>])

\* a client that keeps resources next to its entities; resource types and
\* component types share the ids of component_id<T>()
NextResources ==
    \/ Create
    \/ \E e \in Living, c \in Components, v \in Values : AddValue(e, c, v)
    \/ \E r \in Components, v \in Values : SetResource(r, v)
    \/ \E r \in Components : GetResource(r)

SpecResources == Init /\ [][NextResources]_vars

\* a World record of the helpers from the members of a World object
AsWorld(m) ==
    [generations |-> m.generations, free_ids |-> m.free_ids,
     archetypes |-> m.archetypes, entity_locations |-> m.entity_locations,
     resources |-> m.resources, event_handlers |-> m.event_handlers,
     fired |-> << >>, ub |-> FALSE]

\* a member-wise move that leaves free_ids_ out of the initializer list
move_members_without_free_ids(m) ==
    [generations |-> m.generations, free_ids |-> << >>,
     archetypes |-> m.archetypes, entity_locations |-> m.entity_locations,
     resources |-> m.resources, event_handlers |-> m.event_handlers]

\* generations_(std::move(other.generations_)), ... , event_handlers_(
\* std::move(other.event_handlers_)): what the target holds afterwards.  The
\* nodes of archetypes_ change owner and are not relocated, so the Archetype*
\* of entity_locations_ name the same archetypes as before.
move_members(m) ==
    [generations |-> m.generations, free_ids |-> m.free_ids,
     archetypes |-> m.archetypes, entity_locations |-> m.entity_locations,
     resources |-> m.resources, event_handlers |-> m.event_handlers]

\* a source of std::move that keeps what it held
moved_from_keeps(m) == m

\* what std::move leaves in the source: the vectors and maps of the build's
\* standard library are empty after a move
moved_from(m) == Members(EmptyWorld)

\* the orders in which the loop over resources_, an unordered_map, can
\* visit the keys S
ResourceOrders(S) ==
    {s \in [1 .. Cardinality(S) -> S] :
        \A i, j \in 1 .. Cardinality(S) : i # j => s[i] # s[j]}

\* for (auto& [_, res] : resources_) if (res.data && res.destroy)
\* res.destroy(res.data): the destructor calls it can make, as call logs
destroy_resources(m) ==
    {[i \in DOMAIN s |-> Destroyed(s[i], m.resources[s[i]].value)] :
        s \in ResourceOrders({r \in DOMAIN m.resources : m.resources[r].data})}

\* the call comp.destroy(comp.data) of destroy_archetype, as the call log
\* shows it: the buffer of column c of the archetype with key k
DestroyedColumn(k, c) == [event |-> "destroy_column", key |-> k, type |-> c]

\* void destroy_archetype(Archetype& arch): the calls it makes, for
\* id = 0, 1, ... : the columns of the key that have a buffer
destroy_archetype(arch) ==
    LET ids == [i \in 1 .. NumComponents |-> i - 1]
        doomed(c) == KeyHas(arch.key, c) /\ arch.components[c].data
        sel == SelectSeq(ids, doomed)
    IN  [i \in DOMAIN sel |-> DestroyedColumn(arch.key, sel[i])]

\* for (auto& [_, arch] : archetypes_) destroy_archetype(arch): the calls of
\* the loop, for the archetypes in the order s
RECURSIVE destroy_archetypes_in(_, _)
destroy_archetypes_in(m, s) ==
    IF s = << >> THEN << >>
    ELSE destroy_archetype(m.archetypes[Head(s)])
             \o destroy_archetypes_in(m, Tail(s))

\* the call logs the loop over archetypes_, an unordered_map, can make
destroy_archetypes(m) ==
    {destroy_archetypes_in(m, s) : s \in ResourceOrders(DOMAIN m.archetypes)}

\* the body of ~World() and the first half of operator=(World&&): the loop
\* over resources_, then the loop over archetypes_
destroy_storage(m) ==
    {r \o a : r \in destroy_resources(m), a \in destroy_archetypes(m)}

\* a step on the two World objects a (the variables of the World) and b
\* (the variable other); neither a move nor a construction takes the mutex
TwoWorlds(a, b, log) ==
    /\ steps < MaxSteps
    /\ steps' = steps + 1
    /\ run' = "ok"
    /\ generations' = a.generations
    /\ free_ids' = a.free_ids
    /\ archetypes' = a.archetypes
    /\ entity_locations' = a.entity_locations
    /\ resources' = a.resources
    /\ event_handlers' = a.event_handlers
    /\ fired' = log
    /\ other' = [made |-> TRUE, world |-> b]
    /\ UNCHANGED <<mutex, thr, registry>>

\* World b;
Construct ==
    /\ run = "ok"
    /\ ~other.made
    /\ TwoWorlds(Members(W), Members(EmptyWorld), << >>)

\* World b = std::move(a);
MoveConstruct ==
    /\ run = "ok"
    /\ ~other.made
    /\ TwoWorlds(moved_from(Members(W)), move_members(Members(W)), << >>)

\* b = std::move(a);  b's resources and columns are destroyed first
MoveAssign ==
    /\ run = "ok"
    /\ other.made
    /\ \E log \in destroy_storage(other.world) :
          TwoWorlds(moved_from(Members(W)), move_members(Members(W)), log)

\* a = std::move(b);  a's resources and columns are destroyed first
MoveAssignBack ==
    /\ run = "ok"
    /\ other.made
    /\ \E log \in destroy_storage(Members(W)) :
          TwoWorlds(move_members(other.world), moved_from(other.world), log)

\* b = std::move(b);  if (this != &other) skips the whole body
MoveAssignSelf ==
    /\ run = "ok"
    /\ other.made
    /\ TwoWorlds(Members(W), other.world, << >>)

\* a client that moves Worlds around, as example_move_semantics does, and
\* goes on using both objects
NextMove ==
    \/ Create
    \/ \E e \in Living : Destroy(e)
    \/ \E e \in Living, c \in Components, v \in Values : AddValue(e, c, v)
    \/ \E r \in Components, v \in Values : SetResource(r, v)
    \/ \E c \in Components, cb \in Callbacks : OnComponentAdded(c, cb)
    \/ Construct
    \/ MoveConstruct
    \/ MoveAssign
    \/ MoveAssignBack
    \/ MoveAssignSelf

SpecMove == Init /\ [][NextMove]_vars

\* b goes out of scope: ~World() of b
DestructOther ==
    /\ run = "ok"
    /\ other.made
    /\ steps < MaxSteps
    /\ steps' = steps + 1
    /\ run' = "ok"
    /\ \E log \in destroy_storage(other.world) : fired' = log
    /\ other' = NoOther
    /\ UNCHANGED <<generations, free_ids, archetypes, entity_locations,
                   resources, event_handlers, mutex, thr, registry>>

\* a goes out of scope after b: ~World() of a, the end of the program
DestructWorld ==
    /\ run = "ok"
    /\ ~other.made
    /\ steps < MaxSteps
    /\ steps' = steps + 1
    /\ run' = "ended"
    /\ \E log \in destroy_storage(Members(W)) : fired' = log
    /\ generations' = EmptyWorld.generations
    /\ free_ids' = EmptyWorld.free_ids
    /\ archetypes' = EmptyWorld.archetypes
    /\ entity_locations' = EmptyWorld.entity_locations
    /\ resources' = EmptyWorld.resources
    /\ event_handlers' = EmptyWorld.event_handlers
    /\ UNCHANGED <<mutex, thr, other, registry>>

\* a client that fills Worlds, moves them around and lets them go out of
\* scope
NextLifetime ==
    \/ Create
    \/ \E e \in Living, c \in Components, v \in Values : AddValue(e, c, v)
    \/ \E e \in Living, cs \in Packs : Remove(e, cs)
    \/ \E r \in Components, v \in Values : SetResource(r, v)
    \/ Construct
    \/ MoveConstruct
    \/ MoveAssign
    \/ MoveAssignBack
    \/ MoveAssignSelf
    \/ DestructOther
    \/ DestructWorld

SpecLifetime == Init /\ [][NextLifetime]_vars

\* #define RECS_MAX_COMPONENTS: the build's limit, the number of component
\* indices the World is built for
RECS_MAX_COMPONENTS == NumComponents

\* a step of thread t inside component_id / next_component_id: no World is
\* involved
RegistryStep(reg) ==
    /\ registry' = reg
    /\ UNCHANGED <<generations, free_ids, archetypes, entity_locations,
                   resources, event_handlers, fired, steps, mutex, thr, other>>

\* component_id<T>() by thread t when T's static id is initialized:
\* return id
UseRegistered(t, T) ==
    /\ run = "ok"
    /\ registry.at[t].pc = "idle"
    /\ registry.guard[T] = 2
    /\ run' = run
    /\ RegistryStep([registry EXCEPT !.got[t][T] = registry.ids[T]])

\* component_id<T>() by thread t, the first use of T: the thread takes the
\* guard of T's static and enters next_component_id(); a thread that
\* finds the guard taken waits
FirstUse(t, T) ==
    /\ run = "ok"
    /\ registry.at[t].pc = "idle"
    /\ registry.guard[T] = 0
    /\ run' = run
    /\ RegistryStep([registry EXCEPT !.guard[T] = 1,
                         !.at[t] = [pc |-> "assert", type |-> T, tmp |-> 0]])

\* assert(id < RECS_MAX_COMPONENTS): passes, or aborts the program in a
\* build that keeps asserts, or is not there in a build with NDEBUG
CheckLimit(t) ==
    /\ run = "ok"
    /\ registry.at[t].pc = "assert"
    /\ \/ /\ run' = run
          /\ RegistryStep([registry EXCEPT !.at[t].pc = "load"])
       \/ /\ registry.next >= RECS_MAX_COMPONENTS
          /\ run' = "crashed"
          /\ RegistryStep(registry)

\* return id++, first half: the value of the counter is read
LoadCounter(t) ==
    /\ run = "ok"
    /\ registry.at[t].pc = "load"
    /\ run' = run
    /\ RegistryStep([registry EXCEPT !.at[t].pc = "store",
                                     !.at[t].tmp = registry.next])

\* return id++, second half: the value the counter is given (the uint32_t
\* does not wrap within NumTypes registrations)
stored_counter(tmp) == tmp + 1

\* return id++, second half, and static ComponentID id = (the value read):
\* T's static is initialized and its guard released
StoreCounter(t) ==
    /\ run = "ok"
    /\ registry.at[t].pc = "store"
    /\ run' = run
    /\ LET T == registry.at[t].type
           id == registry.at[t].tmp
       IN  RegistryStep([registry EXCEPT
                            !.next = stored_counter(id),
                            !.ids[T] = id,
                            !.guard[T] = 2,
                            !.got[t][T] = id,
                            !.at[t] = RegIdle])

\* threads that use component types, through a World or directly
NextRegistry ==
    \/ \E t \in Threads, T \in Types : UseRegistered(t, T)
    \/ \E t \in Threads, T \in Types : FirstUse(t, T)
    \/ \E t \in Threads : CheckLimit(t)
    \/ \E t \in Threads : LoadCounter(t)
    \/ \E t \in Threads : StoreCounter(t)

SpecRegistry == Init /\ [][NextRegistry]_vars

\* the index a World operation on type T computes with: component_id<T>()
\* once T's static is initialized
IndexOf(T) == registry.ids[T]

\* add<T>(e, args...) for a registered type T: new_key.add(component_id<T>())
\* shifts by the index and arch.components[component_id<T>()] indexes the
\* std::array of RECS_MAX_COMPONENTS columns, both undefined for an index
\* that is not below RECS_MAX_COMPONENTS
AddOfType(e, T, v) ==
    /\ run = "ok"
    /\ registry.guard[T] = 2
    /\ Returns(IF IndexOf(T) < RECS_MAX_COMPONENTS
               THEN add_value(W, e, IndexOf(T), v)
               ELSE Undefined(W))

\* set_resource<T>(args...) for a registered type T: resources_ is a map
\* keyed by the index, whatever it is
SetResourceOfType(T, v) ==
    /\ run = "ok"
    /\ registry.guard[T] = 2
    /\ Returns(set_resource(W, IndexOf(T), v))

\* a program of one thread that registers types and uses them on a World
\* as components and as resources
NextOverflow ==
    \/ \E T \in Types : FirstUse(1, T)
    \/ CheckLimit(1)
    \/ LoadCounter(1)
    \/ StoreCounter(1)
    \/ Create
    \/ \E e \in Living, T \in Types, v \in Values : AddOfType(e, T, v)
    \/ \E T \in Types, v \in Values : SetResourceOfType(T, v)

SpecOverflow == Init /\ [][NextOverflow]_vars

\* the client also registers callbacks
NextHooks ==
    \/ Next
    \/ \E c \in Components, cb \in Callbacks : OnComponentAdded(c, cb)
    \/ \E c \in Components, cb \in Callbacks : OnComponentRemoved(c, cb)

SpecHooks == Init /\ [][NextHooks]_vars

---------------------------------------------------------------------------
(* Iteration.  for_each, for_each_chunk and Query::each walk archetypes_, a
   std::unordered_map, in an order the map decides: the order is an input of
   the operators.  The callback fn only reads what it is handed; every call
   of it is logged in `fired' as the operation makes it. *)

\* a & b on masks
RECURSIVE BitAnd(_, _)
BitAnd(a, b) ==
    IF a = 0 \/ b = 0 THEN 0
    ELSE (a % 2) * (b % 2) + 2 * BitAnd(a \div 2, b \div 2)

\* ArchetypeKey required; (required.add(component_id<Cs>()), ...)
required(cs) == KeyAddAll(0, cs)

\* the packs Es... of exclude<Es...>(), and none when exclude is not called
ExcludePacks == Packs \cup {<<>>}

\* the orders the loop may visit the archetypes in
Orders(archs) ==
    {o \in [1 .. Cardinality(DOMAIN archs) -> DOMAIN archs] :
        \A i, j \in DOMAIN o : o[i] = o[j] => i = j}

\* a test that forgets the exclude mask
matches_required_only(arch, req, exc) == BitAnd(arch.key, req) = req

\* the test of the loops: the continue statements are not taken
matches(arch, req, exc) ==
    /\ BitAnd(arch.key, req) = req
    /\ BitAnd(arch.key, exc) = 0

\* the inner loop of for_each and Query::each over one archetype:
\* fn((*get_array<Cs>(arch))[i]...) for i = 0 .. n-1
each_rows(arch, k, cs) ==
    [i \in 1 .. Len(arch.entities) |->
        [event |-> "each", arch |-> k, row |-> i - 1,
         values |-> [j \in DOMAIN cs |-> At(arch.components[cs[j]].vec, i - 1)]]]

\* the inner loop is undefined: assert(arr.data) of get_array fails, or a row
\* is outside a column
each_undefined(arch, cs) ==
    /\ Len(arch.entities) > 0
    /\ \E j \in DOMAIN cs :
          \/ ~arch.components[cs[j]].data
          \/ Len(arch.components[cs[j]].vec) < Len(arch.entities)

\* a chunk call that reports one row whatever the archetype holds
chunk_call_one_row(arch, k, cs) ==
    IF arch.entities = <<>> THEN <<>>
    ELSE << [event |-> "chunk", arch |-> k,
             base |-> [j \in DOMAIN cs |-> arch.components[cs[j]].vec],
             n |-> 1] >>

\* the body of for_each_chunk over one archetype:
\* fn(get_array<Cs>(arch)->data()..., arch.entities.size()), empty ones skipped
chunk_call(arch, k, cs) ==
    IF arch.entities = <<>> THEN <<>>
    ELSE << [event |-> "chunk", arch |-> k,
             base |-> [j \in DOMAIN cs |-> arch.components[cs[j]].vec],
             n |-> Len(arch.entities)] >>

chunk_undefined(arch, cs) ==
    /\ arch.entities # <<>>
    /\ \E j \in DOMAIN cs : ~arch.components[cs[j]].data

RECURSIVE Concat(_)
Concat(ss) == IF ss = <<>> THEN <<>> ELSE Head(ss) \o Concat(Tail(ss))

\* the loop over archetypes_ in the order given; kind is "each" or "chunk"
walk(w, cs, exc, kind, order) ==
    LET hit(k) == matches(w.archetypes[k], required(cs), required(exc))
        calls(k) == IF ~hit(k) THEN <<>>
                    ELSE IF kind = "each" THEN each_rows(w.archetypes[k], k, cs)
                    ELSE chunk_call(w.archetypes[k], k, cs)
        bad(k) == /\ hit(k)
                  /\ IF kind = "each" THEN each_undefined(w.archetypes[k], cs)
                     ELSE chunk_undefined(w.archetypes[k], cs)
    IN  IF \E i \in DOMAIN order : bad(order[i]) THEN Undefined(w)
        ELSE [w EXCEPT !.fired = Concat([i \in DOMAIN order |-> calls(order[i])])]

\* template<typename... Cs, typename Fn> void for_each(Fn&& fn)
for_each(w, cs, order) == walk(w, cs, <<>>, "each", order)

\* template<typename... Cs, typename Fn> void for_each_chunk(Fn&& fn)
for_each_chunk(w, cs, order) == walk(w, cs, <<>>, "chunk", order)

\* a query whose each() leaves out the test of exclude_mask
query_each_without_exclude(w, cs, es, order) == walk(w, cs, <<>>, "each", order)

\* query<Cs...>().exclude<Es...>().each(fn)
query_each(w, cs, es, order) == walk(w, cs, es, "each", order)

ForEach(cs) ==
    /\ run = "ok"
    /\ \E order \in Orders(archetypes) : Returns(for_each(W, cs, order))

ForEachChunk(cs) ==
    /\ run = "ok"
    /\ \E order \in Orders(archetypes) : Returns(for_each_chunk(W, cs, order))

QueryEach(cs, es) ==
    /\ run = "ok"
    /\ \E order \in Orders(archetypes) : Returns(query_each(W, cs, es, order))

\* the client also iterates
NextIter ==
    \/ Next
    \/ \E cs \in Packs : ForEach(cs)
    \/ \E cs \in Packs : ForEachChunk(cs)
    \/ \E cs \in Packs, es \in ExcludePacks : QueryEach(cs, es)

SpecIter == Init /\ [][NextIter]_vars

\* a client that passes only handles of alive entities, and iterates
NextAlive ==
    \/ Create
    \/ \E e \in Living : Destroy(e)
    \/ \E e \in Living, cs \in Packs : Add(e, cs)
    \/ \E e \in Living, c \in Components, v \in Values : AddValue(e, c, v)
    \/ \E e \in Living, cs \in Packs : Remove(e, cs)
    \/ \E cs \in Packs : ForEach(cs)

SpecAlive == Init /\ [][NextAlive]_vars

---------------------------------------------------------------------------
(* Several client threads on one World.  An operation that takes
   std::lock_guard<std::mutex> lock(world_mutex_) is a step that acquires the
   mutex followed by the steps of its body, the last of which releases it;
   an operation that takes no lock is the steps of its body alone.  migrate
   is two steps, so that a thread that does not wait for the mutex can run
   between its halves. *)

\* thread t starts a call: its record, and the call counted
Enter(t, rec) ==
    /\ run = "ok"
    /\ thr[t].pc = "idle"
    /\ steps < MaxSteps
    /\ steps' = steps + 1
    /\ thr' = [thr EXCEPT ![t] = rec]

\* std::lock_guard<std::mutex> lock(world_mutex_)
Lock(t) == mutex = 0 /\ mutex' = t

\* the lock_guard goes out of scope as the call returns
Unlock(t) ==
    /\ mutex' = 0
    /\ thr' = [thr EXCEPT ![t] = IdleThread]

World_unchanged ==
    UNCHANGED <<generations, free_ids, archetypes, entity_locations,
                resources, event_handlers, fired, run, other, registry>>

\* Entity create()
T_CreateLock(t) ==
    /\ CanCreate(W)
    /\ Enter(t, [IdleThread EXCEPT !.pc = "create"])
    /\ Lock(t)
    /\ World_unchanged

T_Create(t) ==
    /\ run = "ok" /\ thr[t].pc = "create"
    /\ Commit(create_unsafe(W))
    /\ Unlock(t)
    /\ UNCHANGED steps

\* void destroy(Entity e)
T_DestroyLock(t, e) ==
    /\ alive_unsafe(W, e) => e.generation < MaxGen
    /\ Enter(t, [IdleThread EXCEPT !.pc = "destroy", !.e = e])
    /\ Lock(t)
    /\ World_unchanged

T_Destroy(t) ==
    /\ run = "ok" /\ thr[t].pc = "destroy"
    /\ Commit(destroy_unsafe(W, thr[t].e))
    /\ Unlock(t)
    /\ UNCHANGED steps

\* bool alive(Entity e) const
T_AliveLock(t, e) ==
    /\ Enter(t, [IdleThread EXCEPT !.pc = "alive", !.e = e])
    /\ Lock(t)
    /\ World_unchanged

T_Alive(t) ==
    /\ run = "ok" /\ thr[t].pc = "alive"
    /\ Unlock(t)
    /\ World_unchanged
    /\ UNCHANGED steps

\* template<typename C, typename... Args> void add(Entity e, Args&&... args)
T_AddLock(t, e, c, v) ==
    /\ Enter(t, [IdleThread EXCEPT !.pc = "add_begin", !.e = e, !.c = c, !.v = v])
    /\ Lock(t)
    /\ World_unchanged

T_AddBegin(t) ==
    /\ run = "ok" /\ thr[t].pc = "add_begin"
    /\ LET w3 == migrate_begin(W, thr[t].e, <<thr[t].c>>, TRUE)
       IN  /\ Commit(w3)
           /\ IF w3.ub THEN UNCHANGED <<thr, mutex>>
              ELSE /\ thr' = [thr EXCEPT ![t].pc = "add_end"]
                   /\ UNCHANGED mutex
    /\ UNCHANGED steps

T_AddEnd(t) ==
    /\ run = "ok" /\ thr[t].pc = "add_end"
    /\ Commit(add_value_end(W, thr[t].e, thr[t].c, thr[t].v))
    /\ Unlock(t)
    /\ UNCHANGED steps

\* size_t get_entity_count() const: generations_.size() - free_ids_.size(),
\* two reads and no lock
T_CountBegin(t) ==
    /\ Enter(t, [IdleThread EXCEPT !.pc = "count", !.n = Len(generations)])
    /\ World_unchanged
    /\ UNCHANGED mutex

T_CountEnd(t) ==
    /\ run = "ok" /\ thr[t].pc = "count"
    /\ thr' = [thr EXCEPT ![t] = IdleThread]
    /\ World_unchanged
    /\ UNCHANGED <<mutex, steps>>

\* template<typename... Cs, typename Fn> void for_each(Fn&& fn), with one
\* component and a callback that reads: no lock.  for (auto& [_, arch] :
\* archetypes_) takes begin() once: the loop walks the list of the map's
\* nodes as it is then, in the order the map decides, and an archetype that
\* is inserted later goes to the head of the list, behind the iterator, and
\* is not visited.
T_ForEachBegin(t, c) ==
    /\ \E order \in Orders(archetypes) :
          Enter(t, [IdleThread EXCEPT !.pc = "fe_next", !.c = c, !.work = order])
    /\ World_unchanged
    /\ UNCHANGED mutex

\* the next archetype of the loop: skipped unless its key has the component
\* and it has rows; n = arch.entities.size() is read once
T_ForEachNext(t) ==
    /\ run = "ok" /\ thr[t].pc = "fe_next"
    /\ thr[t].work # << >>
    /\ LET k == Head(thr[t].work)
           n == Len(archetypes[k].entities)
       IN  IF KeyHas(archetypes[k].key, thr[t].c) /\ n > 0
           THEN thr' = [thr EXCEPT ![t].work = Tail(@), ![t].pc = "fe_row",
                                   ![t].arch = k, ![t].n = n, ![t].i = 0]
           ELSE thr' = [thr EXCEPT ![t].work = Tail(@)]
    /\ World_unchanged
    /\ UNCHANGED <<mutex, steps>>

\* the row of the column fn is called with: (*get_array<C>(arch))[i]
RowReadable(t) ==
    LET col == archetypes[thr[t].arch].components[thr[t].c]
    IN  col.data /\ thr[t].i < Len(col.vec)

\* the buffers the columns cs of archetype k have now, told apart by their
\* capacity
Buffers(k, cs) == [j \in DOMAIN cs |-> archetypes[k].components[cs[j]].cap]

\* fn((*get_array<Cs>(arch))[i]...) for the row i < n: fn is called with a
\* reference into the column
T_ForEachRow(t) ==
    /\ run = "ok" /\ thr[t].pc = "fe_row"
    /\ IF ~RowReadable(t)
       THEN /\ run' \in {"crashed", "corrupt"}     \* assert(arr.data), a row outside the vector
            /\ UNCHANGED <<generations, free_ids, archetypes, entity_locations,
                           resources, event_handlers, fired, thr, other, registry>>
       ELSE /\ World_unchanged
            /\ thr' = [thr EXCEPT ![t].pc = "fe_fn",
                                  ![t].held = Buffers(thr[t].arch, <<thr[t].c>>)]
    /\ UNCHANGED <<mutex, steps>>

\* fn reads its argument and returns: the reference is into a freed buffer
\* when a push of another thread has moved the column meanwhile, and to an
\* element past size() when a pop_back has taken the row meanwhile
T_ForEachFn(t) ==
    /\ run = "ok" /\ thr[t].pc = "fe_fn"
    /\ IF thr[t].held # Buffers(thr[t].arch, <<thr[t].c>>) \/ ~RowReadable(t)
       THEN /\ run' \in {"crashed", "corrupt"}
            /\ UNCHANGED <<generations, free_ids, archetypes, entity_locations,
                           resources, event_handlers, fired, thr, other, registry>>
       ELSE /\ World_unchanged
            /\ IF thr[t].i + 1 < thr[t].n
               THEN thr' = [thr EXCEPT ![t].i = @ + 1, ![t].pc = "fe_row",
                                       ![t].held = << >>]
               ELSE thr' = [thr EXCEPT ![t].pc = "fe_next", ![t].held = << >>]
    /\ UNCHANGED <<mutex, steps>>

\* the loop over the archetypes is over: the iterator is at end()
T_ForEachEnd(t) ==
    /\ run = "ok" /\ thr[t].pc = "fe_next"
    /\ thr[t].work = << >>
    /\ thr' = [thr EXCEPT ![t] = IdleThread]
    /\ World_unchanged
    /\ UNCHANGED <<mutex, steps>>

NextThreads ==
    \E t \in Threads :
        \/ T_CreateLock(t)
        \/ T_Create(t)
        \/ \E e \in ClientHandles : T_DestroyLock(t, e)
        \/ T_Destroy(t)
        \/ \E e \in ClientHandles : T_AliveLock(t, e)
        \/ T_Alive(t)
        \/ \E e \in ClientHandles, c \in Components, v \in Values : T_AddLock(t, e, c, v)
        \/ T_AddBegin(t)
        \/ T_AddEnd(t)
        \/ T_CountBegin(t)
        \/ T_CountEnd(t)
        \/ \E c \in Components : T_ForEachBegin(t, c)
        \/ T_ForEachNext(t)
        \/ T_ForEachRow(t)
        \/ T_ForEachFn(t)
        \/ T_ForEachEnd(t)

SpecThreads == Init /\ [][NextThreads]_vars

\* std::vector<Entity> create_batch(size_t count): the lock, then the loop
T_CreateBatchLock(t, count) ==
    /\ count <= Capacity(W)
    /\ Enter(t, [IdleThread EXCEPT !.pc = "create_batch", !.n = count])
    /\ Lock(t)
    /\ World_unchanged

\* entities.push_back(create_unsafe()) for the next i < count
T_CreateBatchStep(t) ==
    /\ run = "ok" /\ thr[t].pc = "create_batch"
    /\ thr[t].i < thr[t].n
    /\ Commit(create_unsafe(W))
    /\ thr' = [thr EXCEPT ![t].i = @ + 1, ![t].work = Append(@, created(W))]
    /\ UNCHANGED <<mutex, steps>>

\* return entities
T_CreateBatchEnd(t) ==
    /\ run = "ok" /\ thr[t].pc = "create_batch"
    /\ thr[t].i = thr[t].n
    /\ Unlock(t)
    /\ World_unchanged
    /\ UNCHANGED steps

\* void destroy_batch(const std::vector<Entity>& entities): the lock, then
\* the loop
T_DestroyBatchLock(t, es) ==
    /\ \A i \in DOMAIN es : alive_unsafe(W, es[i]) => es[i].generation < MaxGen
    /\ Enter(t, [IdleThread EXCEPT !.pc = "destroy_batch", !.n = Len(es),
                                   !.work = es])
    /\ Lock(t)
    /\ World_unchanged

\* destroy_unsafe(e) for the next element of entities
T_DestroyBatchStep(t) ==
    /\ run = "ok" /\ thr[t].pc = "destroy_batch"
    /\ thr[t].i < thr[t].n
    /\ LET w == destroy_unsafe(W, thr[t].work[thr[t].i + 1])
       IN  /\ Commit(w)
           /\ IF w.ub THEN UNCHANGED thr
              ELSE thr' = [thr EXCEPT ![t].i = @ + 1]
    /\ UNCHANGED <<mutex, steps>>

\* the loop of destroy_batch is over
T_DestroyBatchEnd(t) ==
    /\ run = "ok" /\ thr[t].pc = "destroy_batch"
    /\ thr[t].i = thr[t].n
    /\ Unlock(t)
    /\ World_unchanged
    /\ UNCHANGED steps

\* threads that create and destroy in batches while others add components
\* and count the entities, as example_batch_operations and
\* threading_example.cpp do
NextBatchThreads ==
    \E t \in Threads :
        \/ \E count \in 0 .. MaxBatch : T_CreateBatchLock(t, count)
        \/ T_CreateBatchStep(t)
        \/ T_CreateBatchEnd(t)
        \/ \E es \in Batches : T_DestroyBatchLock(t, es)
        \/ T_DestroyBatchStep(t)
        \/ T_DestroyBatchEnd(t)
        \/ \E e \in ClientHandles, c \in Components, v \in Values : T_AddLock(t, e, c, v)
        \/ T_AddBegin(t)
        \/ T_AddEnd(t)
        \/ T_CountBegin(t)
        \/ T_CountEnd(t)

SpecBatchThreads == Init /\ [][NextBatchThreads]_vars

\* the public operation the callback cb calls on the World it is registered
\* with: the first callback asks alive(e), the others get_entity_count()
Reenters(cb) == IF cb = 1 THEN "alive" ELSE "get_entity_count"

\* alive takes std::lock_guard<std::mutex> lock(world_mutex_);
\* get_entity_count takes no lock
TakesMutex(op) == op = "alive"

\* template<typename... Cs> void add(Entity e), one component: the lock
T_HookAddLock(t, e, c) ==
    /\ Enter(t, [IdleThread EXCEPT !.pc = "hook_add", !.e = e, !.c = c])
    /\ Lock(t)
    /\ World_unchanged

\* migrate<C>(e, true) up to the callbacks: the structural change is made,
\* the callbacks fire_component_added<C>(e) will call are known
T_HookMigrate(t) ==
    /\ run = "ok" /\ thr[t].pc = "hook_add"
    /\ LET w == migrate(W, thr[t].e, <<thr[t].c>>, TRUE)
       IN  /\ Commit([w EXCEPT !.fired = << >>])
           /\ IF w.ub THEN UNCHANGED thr
              ELSE thr' = [thr EXCEPT ![t].pc = "hooks", ![t].work = w.fired,
                                      ![t].n = Len(w.fired)]
    /\ UNCHANGED <<mutex, steps>>

\* callback(e) of fire_component_added: the callback is entered and calls
\* its operation on the World.  on_component_added takes no lock: its
\* push_back has moved the vector this loop walks when the vector holds
\* more callbacks than the buffer the loop began on has room for, and
\* 'callback' then refers to a destroyed std::function in a freed buffer
T_HookInvoke(t) ==
    /\ run = "ok" /\ thr[t].pc = "hooks"
    /\ thr[t].work # << >>
    /\ IF Len(event_handlers[thr[t].c].on_add) > CapacityFor(0, thr[t].n)
       THEN /\ run' \in {"crashed", "corrupt"}
            /\ UNCHANGED <<fired, thr>>
       ELSE /\ fired' = Append(fired, Head(thr[t].work))
            /\ thr' = [thr EXCEPT ![t].pc = "hook_call"]
            /\ UNCHANGED run
    /\ UNCHANGED <<generations, free_ids, archetypes, entity_locations,
                   resources, event_handlers, other, registry,
                   mutex, steps>>

\* the operation the callback called runs and returns, and the callback
\* returns: an operation that takes the mutex waits until it is free
T_HookReenter(t) ==
    /\ run = "ok" /\ thr[t].pc = "hook_call"
    /\ TakesMutex(Reenters(Head(thr[t].work).callback)) => mutex = 0
    /\ mutex' = IF TakesMutex(Reenters(Head(thr[t].work).callback))
                THEN 0 ELSE mutex
    /\ thr' = [thr EXCEPT ![t].pc = "hooks", ![t].work = Tail(@)]
    /\ World_unchanged
    /\ UNCHANGED steps

\* every callback has returned: add returns and the lock_guard unlocks
T_HookReturn(t) ==
    /\ run = "ok" /\ thr[t].pc = "hooks"
    /\ thr[t].work = << >>
    /\ Unlock(t)
    /\ World_unchanged
    /\ UNCHANGED steps

\* threads that add components on a World whose on_add callbacks call back
\* into the World
NextReenter ==
    \/ \E c \in Components, cb \in Callbacks : OnComponentAdded(c, cb)
    \/ \E t \in Threads :
          \/ T_CreateLock(t)
          \/ T_Create(t)
          \/ \E e \in Living, c \in Components : T_HookAddLock(t, e, c)
          \/ T_HookMigrate(t)
          \/ T_HookInvoke(t)
          \/ T_HookReenter(t)
          \/ T_HookReturn(t)

SpecReenter == Init /\ [][NextReenter]_vars

---------------------------------------------------------------------------
(* Parallel iteration.  parallel_for_each and parallel_for_each_chunk build
   their list of work under the mutex, in a block of its own, and invoke fn
   after the block, with the mutex free: a call of fn is two steps, the one
   that hands fn its references or pointers and the one in which fn reads
   them and returns, and other threads run between the two.  The loop over
   the work items of parallel_for_each is sequential and the rows of one
   item are an OpenMP loop with schedule(dynamic, 1000): the rows of an item
   of up to 1000 rows are one block, taken in ascending order.  The chunks of
   parallel_for_each_chunk are an OpenMP loop: they are taken in any order. *)

\* const size_t chunk_size = 4096
chunk_size == 4096

Min(a, b) == IF a < b THEN a ELSE b

\* parallel_for_each: work_items.emplace_back(&arch, n) for every matching
\* archetype with n > 0, in the order the map hands them out
work_items(w, cs, order) ==
    Concat([i \in DOMAIN order |->
        LET arch == w.archetypes[order[i]]
        IN  IF matches(arch, required(cs), 0) /\ Len(arch.entities) > 0
            THEN << [arch |-> order[i], n |-> Len(arch.entities)] >>
            ELSE <<>>])

\* a subdivision whose last chunk is as long as the others
RECURSIVE subdivide_no_min(_, _, _)
subdivide_no_min(k, start, total) ==
    IF start < total
    THEN << [arch |-> k, start |-> start, count |-> chunk_size] >>
            \o subdivide_no_min(k, start + chunk_size, total)
    ELSE <<>>

\* for (size_t start = 0; start < total; start += chunk_size)
\*     chunks.push_back({&arch, start, std::min(chunk_size, total - start)})
RECURSIVE subdivide(_, _, _)
subdivide(k, start, total) ==
    IF start < total
    THEN << [arch |-> k, start |-> start, count |-> Min(chunk_size, total - start)] >>
            \o subdivide(k, start + chunk_size, total)
    ELSE <<>>

\* parallel_for_each_chunk: the chunks of every matching non-empty archetype
chunk_work(w, cs, order) ==
    Concat([i \in DOMAIN order |->
        LET arch == w.archetypes[order[i]]
        IN  IF matches(arch, required(cs), 0) /\ arch.entities # <<>>
            THEN subdivide(order[i], 0, Len(arch.entities))
            ELSE <<>>])

\* a collecting block that ends with the mutex still held
ParKeepsLock(t) == mutex' = mutex

\* the lock_guard of the collecting block goes out of scope
ParRelease(t) == mutex' = 0

\* template<typename... Cs, typename Fn> void parallel_for_each(Fn&& fn)
T_ParLock(t, cs) ==
    /\ Enter(t, [IdleThread EXCEPT !.pc = "par_collect", !.cs = cs])
    /\ Lock(t)
    /\ World_unchanged

T_ParCollect(t) ==
    /\ run = "ok" /\ thr[t].pc = "par_collect"
    /\ \E order \in Orders(archetypes) :
          thr' = [thr EXCEPT ![t].pc = "par_run",
                             ![t].work = work_items(W, thr[t].cs, order)]
    /\ ParRelease(t)
    /\ World_unchanged
    /\ UNCHANGED steps

\* the row i of every column of Cs of a work item can be read
ItemRowReadable(item, cs, i) ==
    /\ item.arch \in DOMAIN archetypes
    /\ \A j \in DOMAIN cs :
          /\ archetypes[item.arch].components[cs[j]].data
          /\ Len(archetypes[item.arch].components[cs[j]].vec) > i

\* #pragma omp parallel for schedule(dynamic, 1000)
row_block == 1000

\* the next row of a block of the next work item: fn((*get_array<Cs>(*arch))
\* [i]...) is called with references into the columns.  #pragma omp parallel
\* for schedule(dynamic, 1000) deals the rows of the item to the threads of
\* a team in blocks of 1000 (block b is rows (b-1)*1000 .. min(b*1000, n)-1),
\* and a thread runs the rows of its block in row order.  held[b] is the
\* block b that has been begun: the row i it is at, whether fn is running
\* on that row, and the buffers fn has its references into.  A block is
\* begun while fewer than MaxTeam others are begun and not finished.
T_ParRow(t) ==
    /\ run = "ok" /\ thr[t].pc \in {"par_run", "par_fn"}
    /\ Cardinality(thr[t].seen) < Len(thr[t].work)
    /\ LET item == thr[t].work[Cardinality(thr[t].seen) + 1]
           h == thr[t].held
           open == {b \in DOMAIN h :
                       h[b].in \/ h[b].i < Min(b * row_block, item.n)}
       IN  \E b \in 1 .. ((item.n + row_block - 1) \div row_block) :
             /\ IF b \in DOMAIN h
                THEN ~h[b].in /\ h[b].i < Min(b * row_block, item.n)
                ELSE Cardinality(open) < MaxTeam
             /\ LET row == IF b \in DOMAIN h THEN h[b].i ELSE (b - 1) * row_block
                IN  IF ItemRowReadable(item, thr[t].cs, row)
                    THEN /\ thr' = [thr EXCEPT
                                ![t].pc = "par_fn",
                                ![t].held =
                                    [j \in DOMAIN h \cup {b} |->
                                        IF j = b
                                        THEN [i |-> row, in |-> TRUE,
                                              bufs |-> Buffers(item.arch, thr[t].cs)]
                                        ELSE h[j]]]
                         /\ World_unchanged
                    ELSE /\ run' \in {"crashed", "corrupt"}
                         /\ UNCHANGED <<generations, free_ids, archetypes,
                                        entity_locations, resources,
                                        event_handlers, fired, thr, other,
                                        registry>>
    /\ UNCHANGED <<mutex, steps>>

\* fn of a row in progress reads its arguments and returns; the loop over
\* the item is over when every block has run its last row.  The references
\* are into freed buffers when a push has moved a column meanwhile, and to
\* elements past size() when a pop_back has taken the row meanwhile
T_ParFn(t) ==
    /\ run = "ok" /\ thr[t].pc = "par_fn"
    /\ LET done == Cardinality(thr[t].seen) + 1
           item == thr[t].work[done]
           h == thr[t].held
       IN  \E b \in DOMAIN h :
             /\ h[b].in
             /\ IF \/ h[b].bufs # Buffers(item.arch, thr[t].cs)
                   \/ ~ItemRowReadable(item, thr[t].cs, h[b].i)
                THEN /\ run' \in {"crashed", "corrupt"}
                     /\ UNCHANGED <<generations, free_ids, archetypes,
                                    entity_locations, resources, event_handlers,
                                    fired, thr, other, registry>>
                ELSE /\ World_unchanged
                     /\ LET h2 == [h EXCEPT ![b] = [i |-> h[b].i + 1, in |-> FALSE,
                                                    bufs |-> << >>]]
                        IN  IF /\ DOMAIN h2 =
                                    1 .. ((item.n + row_block - 1) \div row_block)
                               /\ \A j \in DOMAIN h2 :
                                     ~h2[j].in /\ h2[j].i = Min(j * row_block, item.n)
                            THEN thr' = [thr EXCEPT ![t].pc = "par_run",
                                                    ![t].seen = @ \cup {done},
                                                    ![t].held = << >>]
                            ELSE thr' = [thr EXCEPT
                                            ![t].pc = IF \E j \in DOMAIN h2 : h2[j].in
                                                      THEN "par_fn" ELSE "par_run",
                                            ![t].held = h2]
    /\ UNCHANGED <<mutex, steps>>

T_ParEnd(t) ==
    /\ run = "ok" /\ thr[t].pc = "par_run"
    /\ Cardinality(thr[t].seen) = Len(thr[t].work)
    /\ thr' = [thr EXCEPT ![t] = IdleThread]
    /\ World_unchanged
    /\ UNCHANGED <<mutex, steps>>

\* template<typename... Cs, typename Fn> void parallel_for_each_chunk(Fn&& fn)
T_ParChunkLock(t, cs) ==
    /\ Enter(t, [IdleThread EXCEPT !.pc = "parchunk_collect", !.cs = cs])
    /\ Lock(t)
    /\ World_unchanged

T_ParChunkCollect(t) ==
    /\ run = "ok" /\ thr[t].pc = "parchunk_collect"
    /\ \E order \in Orders(archetypes) :
          thr' = [thr EXCEPT ![t].pc = "parchunk_run",
                             ![t].work = chunk_work(W, thr[t].cs, order)]
    /\ ParRelease(t)
    /\ World_unchanged
    /\ UNCHANGED steps

\* the rows start .. start+count-1 of every column of Cs can be read
ChunkReadable(chunk, cs) ==
    /\ chunk.arch \in DOMAIN archetypes
    /\ \A j \in DOMAIN cs :
          /\ archetypes[chunk.arch].components[cs[j]].data
          /\ Len(archetypes[chunk.arch].components[cs[j]].vec)
                >= chunk.start + chunk.count

\* one chunk: fn((get_array<Cs>(*work.arch)->data() + work.start)...,
\* work.count) is called with pointers into the columns; get_array has
\* assert(arr.data) and no element is touched.  #pragma omp parallel for schedule(dynamic) hands the chunks
\* to the threads of a team: a chunk is called while the calls of up to
\* MaxTeam - 1 others are in progress, and held[i] are the buffers the call
\* of chunk i has its pointers into
T_ParChunkCall(t) ==
    /\ run = "ok" /\ thr[t].pc \in {"parchunk_run", "parchunk_fn"}
    /\ Cardinality(DOMAIN thr[t].held) < MaxTeam
    /\ \E i \in (DOMAIN thr[t].work) \ (thr[t].seen \cup DOMAIN thr[t].held) :
          IF \A j \in DOMAIN thr[t].cs :
                 archetypes[thr[t].work[i].arch].components[thr[t].cs[j]].data
          THEN /\ thr' = [thr EXCEPT
                              ![t].pc = "parchunk_fn",
                              ![t].held =
                                  [j \in DOMAIN thr[t].held \cup {i} |->
                                      IF j = i
                                      THEN Buffers(thr[t].work[i].arch, thr[t].cs)
                                      ELSE thr[t].held[j]]]
               /\ World_unchanged
          ELSE /\ run' \in {"crashed", "corrupt"}
               /\ UNCHANGED <<generations, free_ids, archetypes, entity_locations,
                              resources, event_handlers, fired, thr, other, registry>>
    /\ UNCHANGED <<mutex, steps>>

\* fn of one of the chunks in progress reads the rows of its chunk and
\* returns: the pointers are into freed buffers when a push has moved a
\* column since the call, and rows past size() are read when the archetype
\* is shorter than the chunk now
T_ParChunkFn(t) ==
    /\ run = "ok" /\ thr[t].pc = "parchunk_fn"
    /\ \E i \in DOMAIN thr[t].held :
          IF \/ thr[t].held[i] # Buffers(thr[t].work[i].arch, thr[t].cs)
             \/ ~ChunkReadable(thr[t].work[i], thr[t].cs)
          THEN /\ run' \in {"crashed", "corrupt"}
               /\ UNCHANGED <<generations, free_ids, archetypes, entity_locations,
                              resources, event_handlers, fired, thr, other, registry>>
          ELSE /\ World_unchanged
               /\ thr' = [thr EXCEPT
                              ![t].pc = IF DOMAIN thr[t].held = {i}
                                        THEN "parchunk_run" ELSE "parchunk_fn",
                              ![t].seen = @ \cup {i},
                              ![t].held = [j \in DOMAIN thr[t].held \ {i} |->
                                              thr[t].held[j]]]
    /\ UNCHANGED <<mutex, steps>>

T_ParChunkEnd(t) ==
    /\ run = "ok" /\ thr[t].pc = "parchunk_run"
    /\ thr[t].seen = DOMAIN thr[t].work
    /\ thr' = [thr EXCEPT ![t] = IdleThread]
    /\ World_unchanged
    /\ UNCHANGED <<mutex, steps>>

\* threads that create, add, ask alive, destroy, count and iterate while
\* others iterate in parallel
NextParallel ==
    \E t \in Threads :
        \/ T_CreateLock(t)
        \/ T_Create(t)
        \/ \E e \in ClientHandles : T_DestroyLock(t, e)
        \/ T_Destroy(t)
        \/ \E e \in ClientHandles : T_AliveLock(t, e)
        \/ T_Alive(t)
        \/ \E e \in ClientHandles, c \in Components, v \in Values : T_AddLock(t, e, c, v)
        \/ T_AddBegin(t)
        \/ T_AddEnd(t)
        \/ T_CountBegin(t)
        \/ T_CountEnd(t)
        \/ \E c \in Components : T_ForEachBegin(t, c)
        \/ T_ForEachNext(t)
        \/ T_ForEachRow(t)
        \/ T_ForEachFn(t)
        \/ T_ForEachEnd(t)
        \/ \E cs \in Packs : T_ParLock(t, cs)
        \/ T_ParCollect(t)
        \/ T_ParRow(t)
        \/ T_ParFn(t)
        \/ T_ParEnd(t)
        \/ \E cs \in Packs : T_ParChunkLock(t, cs)
        \/ T_ParChunkCollect(t)
        \/ T_ParChunkCall(t)
        \/ T_ParChunkFn(t)
        \/ T_ParChunkEnd(t)

SpecParallel == Init /\ [][NextParallel]_vars

---------------------------------------------------------------------------
(* Worlds of thousands of entities

   The subdivision of parallel_for_each_chunk shows on archetypes of more
   than chunk_size rows.  Two populations of a new World give such Worlds.
   A client that calls n times { e = create(); add<C0>(e); } and then m times
   { e = create(); add<C0, C1>(e); } leaves entity i in row i of {C0} for
   i < n and entity n + j in row j of {C0, C1}, every value the default one.
   The examples (openmp_example.cpp) call create_batch(count) and then, for
   every e, add<C0>(e, v0) alone, or add<C0>(e, v0) and add<C1>(e, v1): in
   the second case every entity passes through {C0}, which is left with no
   row and a column of capacity 1, and entity i ends in row i of {C0, C1}.
   The blocks of rows of parallel_for_each show on archetypes of more than
   1000 rows. *)

\* the largest archetype: two full chunks and one row
MaxBulk == 2 * chunk_size + 1

\* the sizes of the {C0} archetype when it is the only one
BulkSizes ==
    {1, chunk_size - 1, chunk_size, chunk_size + 1, MaxBulk - 1, MaxBulk}

\* the sizes of the archetype that has a second one next to it
BulkSizesTwo == {1, chunk_size + 1}

\* the archetype of key that n calls of add on entities first, first + 1,
\* ... leave when no row has left it: the columns of the key hold vals
BulkArchetype(key, first, n, vals) ==
    [key |-> key,
     entities |-> [i \in 1 .. n |-> Entity(first + i - 1, 0)],
     components |-> [c \in Components |->
         IF KeyHas(key, c)
         THEN [data |-> TRUE, vec |-> [i \in 1 .. n |-> vals[c]],
               cap |-> CapacityFor(0, n)]
         ELSE NoColumn]]

\* the default value in every column
Defaults == [c \in Components |-> DefaultValue]

\* n times { e = create(); add<C0>(e); }, m times { e = create();
\* add<C0, C1>(e); }
BulkWorld(n, m) ==
    [EmptyWorld EXCEPT
        !.generations = [i \in 1 .. n + m |-> 0],
        !.entity_locations =
            [i \in 1 .. n + m |->
                IF i <= n THEN [arch |-> 1, index |-> i - 1]
                ELSE [arch |-> 3, index |-> i - n - 1]],
        !.archetypes =
            [k \in (IF n > 0 THEN {1} ELSE {}) \cup (IF m > 0 THEN {3} ELSE {}) |->
                IF k = 1 THEN BulkArchetype(1, 0, n, Defaults)
                ELSE BulkArchetype(3, n, m, Defaults)]]

\* es = create_batch(count); for (Entity e : es) { add<C0>(e, v0);
\* add<C1>(e, v1); }: every entity is pushed on {C0} and moved on to
\* {C0, C1}, where it takes the next row
BatchWorld(count, v0, v1) ==
    [EmptyWorld EXCEPT
        !.generations = [i \in 1 .. count |-> 0],
        !.entity_locations = [i \in 1 .. count |-> [arch |-> 3, index |-> i - 1]],
        !.archetypes =
            [k \in {1, 3} |->
                IF k = 1
                THEN [NewArchetype(1) EXCEPT
                         !.components[0] = [make_array EXCEPT !.cap = grown(0)]]
                ELSE BulkArchetype(3, 0, count,
                                   [c \in Components |-> IF c = 0 THEN v0 ELSE v1])]]

\* the Worlds the populations leave for a pass in chunks
BulkWorlds ==
    {BulkWorld(n, 0) : n \in BulkSizes}
        \cup {BulkWorld(n, 1) : n \in BulkSizesTwo}
        \cup {BatchWorld(n, DefaultValue, MaxValue) : n \in BulkSizesTwo}

\* the Worlds the populations leave for a pass row by row: an archetype of
\* one block of rows and one row more, alone and next to a second one
RowWorlds ==
    {BulkWorld(n, m) : n \in {1, row_block + 1}, m \in {0, 1}}
        \cup {BatchWorld(row_block + 1, DefaultValue, MaxValue)}

\* the World is populated and the client's thread is in the one call the
\* client makes: parallel_for_each_chunk<Cs...>(fn) or
\* parallel_for_each<Cs...>(fn), which has taken the mutex and has not yet
\* looked at the archetypes
InitBulk ==
    /\ \E cs \in Packs :
          \/ /\ \E w \in BulkWorlds \cup RowWorlds :
                   /\ generations = w.generations
                   /\ archetypes = w.archetypes
                   /\ entity_locations = w.entity_locations
             /\ thr = [t \in Threads |->
                          IF t = 1
                          THEN [IdleThread EXCEPT !.pc = "parchunk_collect", !.cs = cs]
                          ELSE IdleThread]
          \/ /\ \E w \in RowWorlds :
                   /\ generations = w.generations
                   /\ archetypes = w.archetypes
                   /\ entity_locations = w.entity_locations
             /\ thr = [t \in Threads |->
                          IF t = 1
                          THEN [IdleThread EXCEPT !.pc = "par_collect", !.cs = cs]
                          ELSE IdleThread]
    /\ free_ids = EmptyWorld.free_ids
    /\ resources = EmptyWorld.resources
    /\ event_handlers = EmptyWorld.event_handlers
    /\ other = NoOther
    /\ registry = NoneRegistered
    /\ fired = <<>>
    /\ run = "ok"
    /\ steps = MaxSteps
    /\ mutex = 1

\* the call runs to its return: the list is collected and the mutex
\* released, the team runs the callbacks
NextBulk ==
    \E t \in Threads :
        \/ T_ParCollect(t)
        \/ T_ParRow(t)
        \/ T_ParFn(t)
        \/ T_ParEnd(t)
        \/ T_ParChunkCollect(t)
        \/ T_ParChunkCall(t)
        \/ T_ParChunkFn(t)
        \/ T_ParChunkEnd(t)

SpecBulk == InitBulk /\ [][NextBulk]_vars

---------------------------------------------------------------------------
(* Notions the claims are stated in *)

\* the handles that are alive
Alive == {e \in Handles : alive_unsafe(W, e)}

\* the directory entry of e
LocationOf(w, e) == At(w.entity_locations, e.id)

\* the rows (archetype key, row index) of w that hold the handle e
RowsOf(w, e) ==
    {kr \in UNION {{<<k, r>> : r \in 0 .. (Len(w.archetypes[k].entities) - 1)} :
                      k \in DOMAIN w.archetypes} :
        At(w.archetypes[kr[1]].entities, kr[2]) = e}

\* the handles some archetype row holds
Resident(w) ==
    UNION {{w.archetypes[k].entities[i] : i \in 1 .. Len(w.archetypes[k].entities)} :
              k \in DOMAIN w.archetypes}

\* the key of the archetype e is in, the empty key when it is in none
KeyOf(w, e) ==
    IF LocationOf(w, e).arch = NullArch THEN 0
    ELSE w.archetypes[LocationOf(w, e).arch].key

\* the structure of the World: everything but the call log
Structure(w) ==
    <<w.generations, w.free_ids, w.archetypes, w.entity_locations,
      w.resources, w.event_handlers>>

---------------------------------------------------------------------------
(* C1 *)

\* C1 (as claimed): directory consistency. After every operation, for every
\* alive entity e whose directory entry names an archetype, the row index is
\* inside that archetype's entity column and the row holds e itself, id and
\* generation.
C1_DirectoryConsistency ==
    \A e \in Alive :
        LET loc == LocationOf(W, e)
        IN  loc.arch # NullArch =>
                /\ loc.arch \in DOMAIN archetypes
                /\ loc.index < Len(archetypes[loc.arch].entities)
                /\ At(archetypes[loc.arch].entities, loc.index) = e

---------------------------------------------------------------------------
(* C2 *)

\* C2: row parity. In every archetype, every component of the key has a
\* column, and the column is as long as the entity column.
C2_RowParity ==
    \A k \in DOMAIN archetypes :
        \A c \in Components :
            KeyHas(archetypes[k].key, c) =>
                /\ archetypes[k].components[c].data
                /\ Len(archetypes[k].components[c].vec) = Len(archetypes[k].entities)

\* an archetype of two components holds an entity that migrated into it, and
\* the archetype it left was emptied by the swap-remove and kept its column
C2_Witness ==
    \E k1, k2 \in DOMAIN archetypes :
        /\ k1 # k2
        /\ Len(archetypes[k2].entities) >= 1
        /\ \A c \in Components : KeyHas(archetypes[k2].key, c)
        /\ archetypes[k1].entities = <<>>
        /\ \E c \in Components :
              KeyHas(archetypes[k1].key, c) /\ archetypes[k1].components[c].data

---------------------------------------------------------------------------
(* C3 *)

\* C3 (as claimed): unique residence. Every alive entity is in exactly one
\* row of exactly one archetype, never in none and never in two, and no row
\* holds a handle that is not alive.
C3_UniqueResidence ==
    /\ \A e \in Alive : Cardinality(RowsOf(W, e)) = 1
    /\ \A e \in Resident(W) : alive_unsafe(W, e)

---------------------------------------------------------------------------
(* C4 *)

\* C4 (as claimed): destroy then create. For every alive entity e, with or
\* without components, destroy(e) followed by create() returns a handle of
\* the same id and another generation; e is then dead and the new handle
\* alive.
C4_DestroyThenCreate ==
    \A e \in Alive :
        e.generation < MaxGen =>
            LET w1 == destroy_unsafe(W, e)
                w2 == create_unsafe(w1)
                e2 == created(w1)
            IN  /\ ~w1.ub
                /\ e2.id = e.id
                /\ e2.generation # e.generation
                /\ ~alive_unsafe(w2, e)
                /\ alive_unsafe(w2, e2)

---------------------------------------------------------------------------
(* C5 *)

\* C5 (as claimed): destroy(e) of an alive e returns normally; e leaves its
\* archetype if it has one, and no archetype is touched if it has none;
\* generations[e.id] grows by one, e.id is pushed onto free_ids and the
\* entity count falls by one.
C5_DestroyEffects ==
    [][\A e \in Handles :
          (alive_unsafe(W, e) /\ Destroy(e)) =>
              /\ run' = "ok"
              /\ IF LocationOf(W, e).arch = NullArch
                 THEN archetypes' = archetypes
                 ELSE LET a == LocationOf(W, e).arch
                      IN  /\ Len(archetypes'[a].entities) = Len(archetypes[a].entities) - 1
                          /\ Cardinality(RowsOf(W', e)) = Cardinality(RowsOf(W, e)) - 1
              /\ generations' = [generations EXCEPT ![e.id + 1] = @ + 1]
              /\ free_ids' = Append(free_ids, e.id)
              /\ get_entity_count(W') = get_entity_count(W) - 1]_vars

---------------------------------------------------------------------------
(* C6 *)

\* C6 (as claimed): a mutation through a handle that is not alive (a stale
\* generation, an id recycled to another entity, an id never allocated) is a
\* no-op: add<Cs...>(e), add<C>(e, v) and remove<Cs...>(e) return, change no
\* archetype, no column, no directory entry, no generation and no free id,
\* and fire no hook.
C6_StaleMutationIsNoOp ==
    [][\A e \in Handles :
          ( /\ ~alive_unsafe(W, e)
            /\ \/ \E cs \in Packs : Add(e, cs) \/ Remove(e, cs)
               \/ \E c \in Components, v \in Values : AddValue(e, c, v) ) =>
              /\ run' = "ok"
              /\ Structure(W') = Structure(W)
              /\ fired' = <<>>]_vars

---------------------------------------------------------------------------
(* C9 *)

\* the components in both keys keep, through get<C>(e), the value they had
SharedValuesKept(w, w1, e) ==
    \A c \in Components :
        (KeyHas(KeyOf(w, e), c) /\ KeyHas(KeyOf(w1, e), c)) =>
            /\ get_unsafe(w, e, c).kind = "value"
            /\ get_unsafe(w1, e, c) = get_unsafe(w, e, c)

\* C9 (as claimed): migration preserves data. Any add or remove on an alive
\* entity e returns and leaves the value of every component that is in both
\* the old and the new key as it was; and when e lacks all of S, add<S>(e)
\* followed by remove<S>(e) leaves every other component of e as it was.
C9_MigrationPreservesData ==
    [][\A e \in Handles, cs \in Packs :
          /\ (alive_unsafe(W, e) /\ (Add(e, cs) \/ Remove(e, cs))) =>
                (run' = "ok" /\ SharedValuesKept(W, W', e))
          /\ ( /\ alive_unsafe(W, e)
               /\ \A i \in DOMAIN cs : ~KeyHas(KeyOf(W, e), cs[i])
               /\ Add(e, cs) ) =>
                LET w2 == migrate(W', e, cs, FALSE)
                IN  /\ run' = "ok"
                    /\ ~w2.ub
                    /\ \A c \in Components :
                          KeyHas(KeyOf(W, e), c) =>
                              get_unsafe(w2, e, c) = get_unsafe(W, e, c)]_vars

---------------------------------------------------------------------------
(* C10 *)

\* C10 (as claimed): adding a component the entity has is a no-op on storage.
\* For an alive e that has C, add<C>(e) returns, leaves the entity column and
\* the component columns of every archetype as they were, and leaves e's
\* directory entry on the same archetype and on a row inside it that holds e.
C10_AddExistingIsNoOp ==
    [][\A e \in Handles, c \in Components :
          (has(W, e, c) /\ Add(e, <<c>>)) =>
              /\ run' = "ok"
              /\ archetypes' = archetypes
              /\ LocationOf(W', e).arch = LocationOf(W, e).arch
              /\ LocationOf(W', e).index < Len(archetypes'[LocationOf(W', e).arch].entities)
              /\ At(archetypes'[LocationOf(W', e).arch].entities,
                    LocationOf(W', e).index) = e]_vars

---------------------------------------------------------------------------
(* C7 *)

\* C7 (as claimed): every public operation that reads or mutates the World
\* holds the World mutex for its whole duration: a thread that is inside a
\* call (create, destroy, alive, add, get_entity_count, for_each) is the
\* holder of the mutex.
C7_MutexHeldThroughEveryOperation ==
    \A t \in Threads : thr[t].pc # "idle" => mutex = t

---------------------------------------------------------------------------
(* C8 *)

\* thread u is between the two halves of a migration
MidMutation(u) == thr[u].pc = "add_end"

\* thread t is inside a call that reads archetypes, columns or the directory
Reading(t) == thr[t].pc \in {"fe_next", "fe_row", "fe_fn", "count"}

\* C8 (as claimed): all World operations are thread-safe. With threads that
\* run create and add, alive, destroy and get_entity_count, and for_each, no
\* thread reads the World while another is in the middle of mutating it; the
\* archetype an iteration is in has its component column as long as its
\* entity column, and the row the iteration is at is inside the column.
C8_ThreadSafe ==
    \A t \in Threads :
        /\ Reading(t) => \A u \in Threads \ {t} : ~MidMutation(u)
        /\ thr[t].pc = "fe_row" =>
              /\ Len(archetypes[thr[t].arch].components[thr[t].c].vec)
                    = Len(archetypes[thr[t].arch].entities)
              /\ RowReadable(t)

---------------------------------------------------------------------------
(* C11 *)

\* C11 (as claimed): removing a component the entity lacks is a no-op. For an
\* alive e that does not have C, with or without an archetype, remove<C>(e)
\* returns, leaves the archetypes (none is created), the columns and the
\* directory as they were, and invokes no on_remove callback.
C11_RemoveLackingIsNoOp ==
    [][\A e \in Handles, c \in Components :
          (alive_unsafe(W, e) /\ ~has(W, e, c) /\ Remove(e, <<c>>)) =>
              /\ run' = "ok"
              /\ Structure(W') = Structure(W)
              /\ fired' = <<>>]_vars

---------------------------------------------------------------------------
(* C12 *)

\* every component of every key has a column as long as the entity column
RowParityOf(archs) ==
    \A k \in DOMAIN archs :
        \A c \in Components :
            KeyHas(archs[k].key, c) =>
                /\ archs[k].components[c].data
                /\ Len(archs[k].components[c].vec) = Len(archs[k].entities)

\* the handles the rows of archetype k hold
HeldBy(archs, k) == {archs[k].entities[i] : i \in 1 .. Len(archs[k].entities)}

\* the structure of a World a callback finds: everything but the values the
\* columns hold
ShapeOf(at) ==
    [generations |-> at.generations, free_ids |-> at.free_ids,
     entity_locations |-> at.entity_locations,
     archetypes |-> [k \in DOMAIN at.archetypes |->
        [key |-> at.archetypes[k].key,
         entities |-> at.archetypes[k].entities,
         columns |-> [c \in Components |->
            [data |-> at.archetypes[k].components[c].data,
             len |-> Len(at.archetypes[k].components[c].vec)]]]]]

\* C12 (as claimed): hooks fire only after commit. Whenever a call invokes an
\* on_add or on_remove callback for e, the World the callback finds has the
\* structure the call leaves (no structural change of the call is still to come);
\* in it row parity holds in every archetype, the directory entry of e names
\* an archetype and a row of it that holds e, and e is no longer held by the
\* archetype it was in before the call unless that is the archetype it is in.
C12_HooksFireAfterCommit ==
    [][run' = "ok" =>
          \A i \in DOMAIN fired' :
              LET r == fired'[i]
                  e == r.entity
                  loc == At(r.at.entity_locations, e.id)
                  old == LocationOf(W, e).arch
              IN  /\ ShapeOf(r.at) = ShapeOf(Seen(W'))
                  /\ RowParityOf(r.at.archetypes)
                  /\ loc.arch # NullArch
                  /\ loc.index < Len(r.at.archetypes[loc.arch].entities)
                  /\ At(r.at.archetypes[loc.arch].entities, loc.index) = e
                  /\ (old # NullArch /\ old # loc.arch) =>
                        e \notin HeldBy(r.at.archetypes, old)]_vars

---------------------------------------------------------------------------
(* C13 *)

\* the calls of a log, without the World they found
Invoked(log) ==
    [i \in DOMAIN log |->
        [event |-> log[i].event, component |-> log[i].component,
         callback |-> log[i].callback, entity |-> log[i].entity]]

\* one call of every callback of a list with e, in the order of the list
OncePerCallback(list, event, c, e) ==
    [i \in DOMAIN list |->
        [event |-> event, component |-> c, callback |-> list[i], entity |-> e]]

\* C13 (as claimed): hook firing is exact and ordered. For every alive entity
\* e that lacks C, add<C>(e) invokes each callback registered with
\* on_component_added<C> exactly once with e, in registration order, and the
\* remove<C>(e) that follows invokes each callback registered with
\* on_component_removed<C> exactly once with e, in registration order.
C13_HooksExactAndOrdered ==
    \A e \in Alive, c \in Components :
        ~has(W, e, c) =>
            LET w1 == migrate(Called(W), e, <<c>>, TRUE)
                w2 == migrate(Called(w1), e, <<c>>, FALSE)
            IN  /\ ~w1.ub
                /\ Invoked(w1.fired) =
                      OncePerCallback(event_handlers[c].on_add, "add", c, e)
                /\ ~w2.ub
                /\ Invoked(w2.fired) =
                      OncePerCallback(event_handlers[c].on_remove, "remove", c, e)

---------------------------------------------------------------------------
(* C14 *)

\* C14 (as claimed): a call invokes on_add callbacks only for components that
\* are in the key of the entity after the call and were not before it, and
\* on_remove callbacks only for components that were in the key before the
\* call and are not after it.
C14_HooksOnlyForChangedComponents ==
    [][run' = "ok" =>
          \A i \in DOMAIN fired' :
              LET r == fired'[i]
                  before == KeyHas(KeyOf(W, r.entity), r.component)
                  after == KeyHas(KeyOf(W', r.entity), r.component)
              IN  /\ r.event = "add" => (~before /\ after)
                  /\ r.event = "remove" => (before /\ ~after)]_vars

---------------------------------------------------------------------------
(* C15 *)

\* archetype key has every component of the include pack and none of the
\* exclude pack
Selected(key, cs, es) ==
    /\ \A j \in DOMAIN cs : KeyHas(key, cs[j])
    /\ \A j \in DOMAIN es : ~KeyHas(key, es[j])

\* the calls of a log that were made for row i of archetype k
CallsFor(log, k, i) == {j \in DOMAIN log : log[j].arch = k /\ log[j].row = i}

\* C15: query matching. In every World, for every include pack I, exclude
\* pack E and order of the archetypes, query<I...>().exclude<E...>().each(fn)
\* returns and has invoked fn exactly once for each row of each archetype
\* whose key has all of I and none of E, and for no other row; when I and E
\* overlap it has invoked fn for no row.
C15_QueryMatching ==
    run = "ok" =>
    \A cs \in Packs, es \in ExcludePacks, order \in Orders(archetypes) :
        LET r == query_each(Called(W), cs, es, order)
            log == r.fired
        IN  /\ ~r.ub
            /\ \A k \in DOMAIN archetypes :
                  \A i \in 0 .. (Len(archetypes[k].entities) - 1) :
                      Cardinality(CallsFor(log, k, i)) =
                          IF Selected(archetypes[k].key, cs, es) THEN 1 ELSE 0
            /\ \A j \in DOMAIN log :
                  /\ log[j].event = "each"
                  /\ log[j].arch \in DOMAIN archetypes
                  /\ log[j].row < Len(archetypes[log[j].arch].entities)
            /\ (\E a \in DOMAIN cs, b \in DOMAIN es : cs[a] = es[b]) => log = <<>>

\* a query has visited the rows of one archetype and passed over an archetype
\* that has rows and every component of the visited one: it was excluded
C15_Witness ==
    /\ fired # <<>>
    /\ \A j \in DOMAIN fired : fired[j].event = "each"
    /\ \E k1, k2 \in DOMAIN archetypes :
          /\ k1 # k2
          /\ \A j \in DOMAIN fired : fired[j].arch = k1
          /\ BitAnd(archetypes[k2].key, archetypes[k1].key) = archetypes[k1].key
          /\ archetypes[k2].entities # <<>>

---------------------------------------------------------------------------
(* C16 *)

\* the handle the row of a call holds
RowEntity(w, call) == At(w.archetypes[call.arch].entities, call.row)

\* e has every component of the pack
HasAll(w, e, cs) == \A j \in DOMAIN cs : has(w, e, cs[j])

\* C16 (as claimed): after any sequence of create, destroy, add and remove on
\* alive handles, for_each<Cs...>(fn) returns and has invoked fn exactly once
\* for every alive entity that has all of Cs, with the values of the row that
\* holds the entity; every call is for a row that holds an alive entity
\* with all of Cs; and the rows of one archetype are visited in ascending
\* order.
C16_ForEachVisitsAliveOnce ==
    run = "ok" =>
    \A cs \in Packs, order \in Orders(archetypes) :
        LET r == for_each(Called(W), cs, order)
            log == r.fired
        IN  /\ ~r.ub
            /\ \A e \in Living :
                  HasAll(W, e, cs) =>
                      /\ Cardinality({j \in DOMAIN log : RowEntity(W, log[j]) = e}) = 1
                      /\ \A j \in DOMAIN log :
                            RowEntity(W, log[j]) = e =>
                                \A a \in DOMAIN cs :
                                    log[j].values[a] =
                                        At(archetypes[log[j].arch].components[cs[a]].vec,
                                           log[j].row)
            /\ \A j \in DOMAIN log :
                  /\ RowEntity(W, log[j]) \in Living
                  /\ HasAll(W, RowEntity(W, log[j]), cs)
            /\ \A i, j \in DOMAIN log :
                  (i < j /\ log[i].arch = log[j].arch) => log[i].row < log[j].row

---------------------------------------------------------------------------
(* C17 *)

\* the (entity, component values) pair each call of a for_each log was made for
EachPairs(w, log) ==
    [j \in DOMAIN log |-> <<RowEntity(w, log[j]), log[j].values>>]

\* the pairs one chunk call covers: rows 0 .. n-1 behind the base pointers
ChunkCover(w, call) ==
    [i \in 1 .. call.n |->
        <<At(w.archetypes[call.arch].entities, i - 1),
          [j \in DOMAIN call.base |-> At(call.base[j], i - 1)]>>]

\* the pairs the calls of a for_each_chunk log cover
ChunkPairs(w, log) == Concat([j \in DOMAIN log |-> ChunkCover(w, log[j])])

\* how often x occurs in the sequence s
Count(s, x) == Cardinality({i \in DOMAIN s : s[i] = x})

\* s and t hold the same elements, each as often
SameMultiset(s, t) ==
    /\ Len(s) = Len(t)
    /\ \A i \in DOMAIN s : Count(s, s[i]) = Count(t, s[i])

\* the row counts of the chunk calls, summed
RECURSIVE RowCount(_)
RowCount(log) == IF log = <<>> THEN 0 ELSE Head(log).n + RowCount(Tail(log))

\* C17: chunk / per-entity equivalence. In every World, for every include
\* pack S and whatever orders the two loops take, for_each_chunk<S> makes one
\* call per matching non-empty archetype, each with base pointers that have
\* the n rows it reports, and the (entity, component values) pairs the calls
\* cover are the pairs for_each<S> visits, each as often; the row counts sum
\* to the number of for_each calls.
C17_ChunkEquivalence ==
    run = "ok" =>
    \A cs \in Packs, o1 \in Orders(archetypes), o2 \in Orders(archetypes) :
        LET each == for_each(Called(W), cs, o1)
            chunk == for_each_chunk(Called(W), cs, o2)
        IN  /\ ~each.ub /\ ~chunk.ub
            /\ \A j \in DOMAIN chunk.fired :
                  /\ chunk.fired[j].n >= 1
                  /\ \A a \in DOMAIN cs : Len(chunk.fired[j].base[a]) >= chunk.fired[j].n
                  /\ \A i \in DOMAIN chunk.fired :
                        chunk.fired[i].arch = chunk.fired[j].arch => i = j
            /\ SameMultiset(ChunkPairs(W, chunk.fired), EachPairs(W, each.fired))
            /\ RowCount(chunk.fired) = Len(each.fired)

\* for_each_chunk has made two calls, for two archetypes that have rows, while
\* a third archetype was skipped
C17_Witness ==
    /\ Len(fired) = 2
    /\ \A j \in DOMAIN fired : fired[j].event = "chunk" /\ fired[j].n >= 1
    /\ fired[1].arch # fired[2].arch
    /\ Cardinality(DOMAIN archetypes) >= 3

---------------------------------------------------------------------------
(* C18 *)

\* the archetypes of w that have rows and every component of the pack
MatchingNonEmpty(w, cs) ==
    {k \in DOMAIN w.archetypes :
        /\ \A j \in DOMAIN cs : KeyHas(w.archetypes[k].key, cs[j])
        /\ w.archetypes[k].entities # <<>>}

\* the archetypes a work list names
Named(work) == {work[i].arch : i \in DOMAIN work}

\* C18: the parallel iteration protocol. For parallel_for_each and
\* parallel_for_each_chunk: the thread holds the mutex while it collects; the
\* list it leaves the collecting block with names exactly the matching
\* non-empty archetypes of the World at that moment (with their row counts,
\* for parallel_for_each), no callback has run by then, and the mutex is
\* released; the thread does not hold the mutex in the dispatch phase, in
\* particular not in a step that runs a callback.
C18_ParallelProtocol ==
    [][\A t \in Threads :
          /\ thr'[t].pc \in {"par_collect", "parchunk_collect"} => mutex' = t
          /\ thr'[t].pc \in {"par_run", "par_fn", "parchunk_run", "parchunk_fn"}
                => mutex' # t
          /\ (thr[t].pc = "par_collect" /\ thr'[t].pc = "par_run") =>
                /\ mutex = t
                /\ thr'[t].seen = {}
                /\ Named(thr'[t].work) = MatchingNonEmpty(W, thr[t].cs)
                /\ \A i \in DOMAIN thr'[t].work :
                      thr'[t].work[i].n = Len(archetypes[thr'[t].work[i].arch].entities)
          /\ (thr[t].pc = "parchunk_collect" /\ thr'[t].pc = "parchunk_run") =>
                /\ mutex = t
                /\ thr'[t].seen = {}
                /\ Named(thr'[t].work) = MatchingNonEmpty(W, thr[t].cs)
          /\ (thr[t].pc \in {"par_fn", "parchunk_fn"}
                 \/ thr'[t].pc \in {"par_fn", "parchunk_fn"}) =>
                (mutex # t /\ mutex' # t)]_vars

\* a callback of thread 1 is running, with callbacks still to run after it,
\* while thread 2 holds the mutex for an operation of its own
C18_Witness ==
    /\ thr[1].pc \in {"par_fn", "parchunk_fn"}
    /\ thr[1].seen # DOMAIN thr[1].work
    /\ mutex = 2
    /\ thr[2].pc \in {"create", "add_begin", "add_end"}

---------------------------------------------------------------------------
(* C19 *)

\* the chunks of archetype k in a work list
ChunksOf(work, k) == {i \in DOMAIN work : work[i].arch = k}

\* the ranges [start, start + count) of the chunks of k are pairwise
\* disjoint, their union is [0, n), every count is in 1 .. 4096 and every
\* start is a multiple of 4096
PartitionOf(work, k, n) ==
    /\ \A i \in ChunksOf(work, k) :
          /\ work[i].count >= 1 /\ work[i].count <= 4096
          /\ work[i].start % 4096 = 0
          /\ work[i].start + work[i].count <= n
    /\ \A i, j \in ChunksOf(work, k) :
          i # j => \/ work[i].start + work[i].count <= work[j].start
                   \/ work[j].start + work[j].count <= work[i].start
    /\ \A r \in 0 .. (n - 1) :
          \E i \in ChunksOf(work, k) :
              work[i].start <= r /\ r < work[i].start + work[i].count

\* the rows of the work item in progress that fn has been called on: of
\* every block that has been begun, the rows up to the one it is at
RowsCalled(h) ==
    UNION {((b - 1) * row_block) .. (IF h[b].in THEN h[b].i ELSE h[b].i - 1) :
              b \in DOMAIN h}

\* C19: parallel subdivision is a partition. The list parallel_for_each_chunk
\* leaves its collecting block with has, for every matching non-empty
\* archetype with n rows, chunks whose ranges are pairwise disjoint and cover
\* exactly [0, n), each of 1 to 4096 rows and starting at a multiple of 4096,
\* and chunks of no other archetype; the list parallel_for_each leaves its
\* collecting block with names no archetype twice and gives every matching
\* non-empty archetype all of its rows.  The dispatch delivers no row twice
\* and skips none: every call of fn is for a chunk of the list that no
\* call has been made for, and parallel_for_each_chunk returns when every
\* chunk has been called and has returned; every call of fn by
\* parallel_for_each is for a row of the item that no call has been made
\* for, an item is left when each of its rows 0 .. n-1 has been called, and
\* parallel_for_each returns when every item is done.
C19_SubdivisionIsPartition ==
    [][\A t \in Threads :
          /\ (thr[t].pc = "parchunk_collect" /\ thr'[t].pc = "parchunk_run") =>
                /\ \A k \in MatchingNonEmpty(W, thr[t].cs) :
                      PartitionOf(thr'[t].work, k, Len(archetypes[k].entities))
                /\ \A i \in DOMAIN thr'[t].work :
                      thr'[t].work[i].arch \in MatchingNonEmpty(W, thr[t].cs)
          /\ (thr[t].pc = "par_collect" /\ thr'[t].pc = "par_run") =>
                /\ \A i, j \in DOMAIN thr'[t].work :
                      thr'[t].work[i].arch = thr'[t].work[j].arch => i = j
                /\ \A k \in MatchingNonEmpty(W, thr[t].cs) :
                      \E i \in DOMAIN thr'[t].work :
                          /\ thr'[t].work[i].arch = k
                          /\ thr'[t].work[i].n = Len(archetypes[k].entities)
          /\ (T_ParChunkCall(t) /\ run' = "ok") =>
                \E i \in DOMAIN thr[t].work :
                    /\ i \notin thr[t].seen \cup DOMAIN thr[t].held
                    /\ DOMAIN thr'[t].held = DOMAIN thr[t].held \cup {i}
                    /\ thr'[t].seen = thr[t].seen
                    /\ thr'[t].work = thr[t].work
          /\ (T_ParChunkFn(t) /\ run' = "ok") =>
                \E i \in DOMAIN thr[t].held :
                    /\ i \notin thr[t].seen
                    /\ thr'[t].seen = thr[t].seen \cup {i}
                    /\ DOMAIN thr'[t].held = DOMAIN thr[t].held \ {i}
                    /\ thr'[t].work = thr[t].work
          /\ T_ParChunkEnd(t) =>
                thr[t].seen = DOMAIN thr[t].work /\ DOMAIN thr[t].held = {}
          /\ (T_ParRow(t) /\ run' = "ok") =>
                LET item == thr[t].work[Cardinality(thr[t].seen) + 1]
                    before == RowsCalled(thr[t].held)
                    after == RowsCalled(thr'[t].held)
                IN  /\ before \subseteq after
                    /\ Cardinality(after \ before) = 1
                    /\ after \subseteq 0 .. (item.n - 1)
                    /\ thr'[t].seen = thr[t].seen
                    /\ thr'[t].work = thr[t].work
          /\ (T_ParFn(t) /\ run' = "ok") =>
                LET done == Cardinality(thr[t].seen) + 1
                IN  /\ thr[t].seen = 1 .. (done - 1)
                    /\ thr'[t].work = thr[t].work
                    /\ IF thr'[t].seen = thr[t].seen
                       THEN RowsCalled(thr'[t].held) = RowsCalled(thr[t].held)
                       ELSE /\ thr'[t].seen = 1 .. done
                            /\ RowsCalled(thr[t].held) =
                                  0 .. (thr[t].work[done].n - 1)
          /\ T_ParEnd(t) =>
                thr[t].seen = DOMAIN thr[t].work /\ DOMAIN thr[t].held = {}
      ]_vars

\* the chunks of an archetype of more than 4096 rows whose last chunk is
\* shorter than the others, next to those of a second archetype, are
\* being dispatched: two of them are in fn
C19_Witness ==
    \E t \in Threads :
        /\ thr[t].pc = "parchunk_fn"
        /\ Cardinality(DOMAIN thr[t].held) = 2
        /\ \E i, j, l \in DOMAIN thr[t].work :
              /\ thr[t].work[i].arch = thr[t].work[j].arch
              /\ thr[t].work[i].start = 0 /\ thr[t].work[i].count = 4096
              /\ thr[t].work[j].start > 0 /\ thr[t].work[j].count < 4096
              /\ thr[t].work[l].arch # thr[t].work[i].arch

---------------------------------------------------------------------------
(* C20 *)

\* Position and Velocity of the scenario
Position == 0
Velocity == 1

\* the handles the two create() calls of the scenario return
ScenarioE1 == created(EmptyWorld)
ScenarioE2 == created(create_unsafe(EmptyWorld))

\* the World after create e1, e2; add<Position>(e1, p1); add<Velocity>(e1, v);
\* add<Position>(e2, p2)
ScenarioPopulated(p1, v, p2) ==
    LET w2 == create_unsafe(create_unsafe(EmptyWorld))
        w3 == Called(add_value(w2, ScenarioE1, Position, p1))
        w4 == Called(add_value(w3, ScenarioE1, Velocity, v))
    IN  Called(add_value(w4, ScenarioE2, Position, p2))

\* the step is the for_each<Position, Velocity> pass of the scenario: the
\* World before it is the populated one and the step runs that pass
ScenarioPass ==
    /\ Len(generations) = 2 /\ free_ids = <<>> /\ fired = <<>>
    /\ \E p1, v, p2 \in Values : W = ScenarioPopulated(p1, v, p2)
    /\ run' = "ok" /\ steps' = steps + 1
    /\ \E order \in Orders(archetypes) :
          W' = Called(for_each(W, <<Position, Velocity>>, order))
          /\ fired' = for_each(W, <<Position, Velocity>>, order).fired
    /\ Len(fired') = 1

\* what the World reports after destroy(e2) is applied to w
ScenarioReport(w) ==
    LET w7 == destroy_unsafe(w, ScenarioE2)
    IN  [defined |-> ~w7.ub,
         entity_count |-> get_entity_count(w7),
         archetype_count |-> get_archetype_count(w7),
         with_members |-> {k \in DOMAIN w7.archetypes : w7.archetypes[k].entities # <<>>},
         alive_e2 |-> alive_unsafe(w7, ScenarioE2)]

\* C20, as claimed: after create e1, e2; add<Position>(e1, ...);
\* add<Velocity>(e1, ...); add<Position>(e2, ...); a for_each<Position,
\* Velocity> pass; and destroy(e2), the World reports entity_count == 1,
\* archetype_count == 1 and alive(e2) == false.
C20_ScenarioAsClaimed ==
    [][ScenarioPass =>
          LET r == ScenarioReport(W')
          IN  /\ r.defined
              /\ r.entity_count = 1
              /\ r.archetype_count = 1
              /\ ~r.alive_e2]_vars

\* C20, amended: after the same calls the World reports entity_count == 1,
\* archetype_count == 2 (the {Position} archetype remains, without members;
\* only the {Position, Velocity} archetype has members) and
\* alive(e2) == false.
C20_ScenarioCounts ==
    [][ScenarioPass =>
          LET r == ScenarioReport(W')
          IN  /\ r.defined
              /\ r.entity_count = 1
              /\ r.archetype_count = 2
              /\ r.with_members = {KeyAddAll(0, <<Position, Velocity>>)}
              /\ ~r.alive_e2]_vars

\* the for_each<Position, Velocity> pass of the scenario has just run, with
\* its one call for e1, and e2 is still alive in the {Position} archetype
C20_Witness ==
    /\ run = "ok"
    /\ \E p1, v, p2 \in Values :
          /\ W = ScenarioPopulated(p1, v, p2)
          /\ fired = << [event |-> "each", arch |-> 3, row |-> 0,
                         values |-> <<p1, v>>] >>
    /\ alive_unsafe(W, ScenarioE2)
    /\ At(entity_locations, ScenarioE2.id) = [arch |-> 1, index |-> 0]
    /\ steps = 6

---------------------------------------------------------------------------
(* C21 *)

\* the step applies destroy to h: destroy(h), or a destroy_batch whose vector
\* holds h
DestroyApplied(h) ==
    \/ Destroy(h)
    \/ \E es \in Batches : (\E i \in DOMAIN es : es[i] = h) /\ DestroyBatch(es)

\* C21 (as claimed): handle lifetime. A handle create() or create_batch()
\* returned stays alive through every step that does not apply destroy to
\* it; a step that applies destroy to it returns and leaves it not alive; a
\* handle whose slot has moved past its generation is never alive again; a
\* slot's generation never decreases, and it grows by exactly one in a step
\* that destroys the slot's living entity and by nothing in any other step.
C21_HandleLifetime ==
    [][\A h \in Handles :
          /\ (h \in Living /\ ~DestroyApplied(h)) => alive_unsafe(W', h)
          /\ (h \in Living /\ DestroyApplied(h)) =>
                /\ run' = "ok"
                /\ ~alive_unsafe(W', h)
                /\ At(generations', h.id) = At(generations, h.id) + 1
          /\ (h.id < Len(generations) /\ At(generations, h.id) > h.generation) =>
                ~alive_unsafe(W', h)
          /\ (h.id < Len(generations) /\ alive_unsafe(W, h)) =>
                At(generations', h.id) =
                    IF h \in Living /\ DestroyApplied(h)
                    THEN At(generations, h.id) + 1 ELSE At(generations, h.id)]_vars

---------------------------------------------------------------------------
(* C22 *)

\* the step is one of create, create_batch, destroy and destroy_batch, on any
\* handles the client holds
DirectoryCall ==
    \/ Create
    \/ \E count \in 0 .. MaxBatch : CreateBatch(count)
    \/ \E e \in ClientHandles : Destroy(e)
    \/ \E es \in Batches : DestroyBatch(es)

\* no id is on the free list twice
NoDuplicates(s) == \A i, j \in DOMAIN s : s[i] = s[j] => i = j

\* C22 (as claimed): count identity. Each of create, create_batch, destroy
\* and destroy_batch, stale and duplicate handles included, returns, and
\* after it get_entity_count() == generations.len() - free_ids.len(), free_ids
\* holds no id twice and no id of a living entity, and the count is the
\* number of entities created and not yet destroyed.
C22_CountIdentity ==
    [][DirectoryCall =>
          /\ run' = "ok"
          /\ get_entity_count(W') = Len(generations') - Len(free_ids')
          /\ NoDuplicates(free_ids')
          /\ \A h \in Living' : h.id \notin FreeIds(W')
          /\ get_entity_count(W') = Cardinality(Living')]_vars

---------------------------------------------------------------------------
(* C23 *)

\* C23: key uniqueness. After every step no two archetypes of the World have
\* the same key and each archetype is stored in the map under its own key
\* mask; an archetype that exists before the step exists after it under the
\* same mask and with the same key.
C23_KeyUniqueness ==
    [][/\ \A k \in DOMAIN archetypes' : archetypes'[k].key = k
       /\ \A k1, k2 \in DOMAIN archetypes' :
             archetypes'[k1].key = archetypes'[k2].key => k1 = k2
       /\ \A k \in DOMAIN archetypes :
             /\ k \in DOMAIN archetypes'
             /\ archetypes'[k].key = archetypes[k].key]_vars

\* three archetypes exist, one that has lost all its members and one that
\* has some
C23_Witness ==
    /\ run = "ok"
    /\ Cardinality(DOMAIN archetypes) >= 3
    /\ \E k1, k2 \in DOMAIN archetypes :
          /\ archetypes[k1].entities = <<>>
          /\ archetypes[k2].entities # <<>>

---------------------------------------------------------------------------
(* C24 *)

\* the values of component c in the rows that hold the handle e
OwnValues(w, e, c) ==
    {At(w.archetypes[kr[1]].components[c].vec, kr[2]) :
        kr \in {x \in RowsOf(w, e) :
                   /\ KeyHas(w.archetypes[x[1]].key, c)
                   /\ x[2] < Len(w.archetypes[x[1]].components[c].vec)}}

\* C24 (as claimed): read accessors report absence instead of failing. In
\* every World reached, for every handle e and component C: has<C>(e) is true
\* exactly when e is alive, has an archetype and C is in that archetype's
\* key; get<C>(e) returns a value exactly when has<C>(e) is true, and then it
\* is the value at e's own row; for a stale handle, an id never allocated, an
\* entity with no archetype and an entity lacking C, get returns absent and
\* has returns false.
C24_AccessorsReportAbsence ==
    run = "ok" =>
        \A e \in Handles, c \in Components :
            /\ has(W, e, c) <=>
                  /\ alive_unsafe(W, e)
                  /\ LocationOf(W, e).arch # NullArch
                  /\ KeyHas(KeyOf(W, e), c)
            /\ (get_unsafe(W, e, c).kind = "value") <=> has(W, e, c)
            /\ has(W, e, c) => OwnValues(W, e, c) = {get_unsafe(W, e, c).value}
            /\ ~has(W, e, c) => get_unsafe(W, e, c) = Absent

---------------------------------------------------------------------------
(* C25 *)

\* C25: destroy of a handle that is not alive changes nothing. destroy(e) of
\* a stale or never-allocated handle returns and leaves generations,
\* free_ids, the directory and every archetype as they were, an entity that
\* reused the id included; so does a destroy_batch of such handles; and a
\* destroy_batch that names a handle twice leaves the World one destroy of
\* that handle leaves.
C25_DestroyNotAliveIsNoOp ==
    [][/\ \A e \in Handles :
             (~alive_unsafe(W, e) /\ Destroy(e)) =>
                 (run' = "ok" /\ Structure(W') = Structure(W))
       /\ \A es \in Batches :
             ((\A i \in DOMAIN es : ~alive_unsafe(W, es[i])) /\ DestroyBatch(es)) =>
                 (run' = "ok" /\ Structure(W') = Structure(W))
       /\ \A e \in Handles :
             (DestroyBatch(<<e, e>>) /\ run' = "ok") =>
                 Structure(W') = Structure(destroy_unsafe(W, e))]_vars

\* the client holds a stale handle whose id a living entity with components
\* has reused, and a handle of an id never allocated, and has calls left
C25_Witness ==
    /\ run = "ok" /\ steps < MaxSteps
    /\ \E e \in ClientHandles, e2 \in Living :
          /\ ~alive_unsafe(W, e)
          /\ e2.id = e.id
          /\ LocationOf(W, e2).arch # NullArch
    /\ \E e \in ClientHandles : e.id >= Len(generations)

---------------------------------------------------------------------------
(* C26 *)

\* what get<C> returns for every living entity other than e and every C
OthersValues(w, e) ==
    [x \in (Living \ {e}) \X Components |-> get_unsafe(w, x[1], x[2])]

\* C26 (as claimed): newly added component values. add<C>(e, args) on an
\* alive e that lacks C returns, and get<C>(e) is then the value built from
\* args; add<Cs...>(e) on an alive e returns, and every component of Cs that e
\* lacked is then value-initialized; in both cases get<C'>(e') is unchanged
\* for every other living entity e' and every component C'.
C26_NewComponentValues ==
    [][\A e \in Living :
          /\ \A c \in Components, v \in Values :
                (~has(W, e, c) /\ AddValue(e, c, v)) =>
                    /\ run' = "ok"
                    /\ get_unsafe(W', e, c) = Value(v)
                    /\ OthersValues(W', e) = OthersValues(W, e)
          /\ \A cs \in Packs :
                ((\E i \in DOMAIN cs : ~has(W, e, cs[i])) /\ Add(e, cs)) =>
                    /\ run' = "ok"
                    /\ \A i \in DOMAIN cs :
                          ~has(W, e, cs[i]) =>
                              get_unsafe(W', e, cs[i]) = Value(DefaultValue)
                    /\ OthersValues(W', e) = OthersValues(W, e)]_vars


\* ---------------------------------------------------------------------
\* C27: after any sequence of set_resource calls the World holds at most
\* one stored value per type: a set_resource<T> on a type that already has
\* a value destroys the old value before storing the new one, a
\* set_resource<T> on a type without a value destroys nothing, and
\* has_resource<T>() is true exactly for the types set_resource<T> has
\* been called for.
SetResourceCall == \E r \in Components, v \in Values : SetResource(r, v)

C27_ResourceTable ==
    [][/\ \A r \in Components, v \in Values :
            SetResource(r, v) =>
                /\ run' = "ok"
                /\ DOMAIN resources' = (DOMAIN resources) \cup {r}
                /\ resources'[r] = Stored(v)
                /\ \A x \in DOMAIN resources : x # r => resources'[x] = resources[x]
                /\ fired' = IF has_resource(W, r)
                            THEN << Destroyed(r, resources[r].value) >>
                            ELSE << >>
                /\ get_resource(W', r) = Value(v)
       /\ \A r \in Components :
            has_resource(W', r) <=>
                (has_resource(W, r) \/ \E v \in Values : SetResource(r, v))
      ]_vars

\* a value has been replaced, and its destructor call is the one logged,
\* while a second type keeps a value of its own
C27_Witness ==
    /\ run = "ok"
    /\ \E r \in Components, v \in Values :
          /\ fired = << Destroyed(r, v) >>
          /\ has_resource(W, r)
          /\ resources[r].value # v
          /\ \E x \in Components : x # r /\ has_resource(W, x)


---------------------------------------------------------------------------
(* C28 *)

\* the World object b
B == AsWorld(other.world)

\* a move into b, by construction or by assignment
MoveIntoB == MoveConstruct \/ MoveAssign

\* the directory invariants of a World: the entry of every alive entity
\* that names an archetype names a row inside it that holds the entity,
\* and the columns of every archetype are as long as its entity column
DirectoryHolds(w) ==
    /\ \A e \in Handles :
          (alive_unsafe(w, e) /\ LocationOf(w, e).arch # NullArch) =>
              /\ LocationOf(w, e).arch \in DOMAIN w.archetypes
              /\ LocationOf(w, e).index
                    < Len(w.archetypes[LocationOf(w, e).arch].entities)
              /\ At(w.archetypes[LocationOf(w, e).arch].entities,
                    LocationOf(w, e).index) = e
    /\ \A k \in DOMAIN w.archetypes : \A c \in Components :
          KeyHas(w.archetypes[k].key, c) =>
              Len(w.archetypes[k].components[c].vec)
                  = Len(w.archetypes[k].entities)

\* C28: move semantics. After World b = std::move(a) or b = std::move(a),
\* b holds exactly a's former generations, free ids, archetypes, directory,
\* resources and hooks: every handle alive in a before is alive in b with
\* the same components and values, and the directory invariants that held
\* in a hold in b. a is an empty World: entity_count 0, archetype_count 0,
\* no resources, the state a constructor leaves, and create and add on it
\* work as on a new World.
C28_MoveSemantics ==
    [][MoveIntoB =>
        /\ run' = "ok"
        /\ Members(B') = Members(W)
        /\ \A e \in Handles :
              /\ alive_unsafe(B', e) <=> alive_unsafe(W, e)
              /\ alive_unsafe(W, e) =>
                    \A c \in Components :
                        /\ has(B', e, c) <=> has(W, e, c)
                        /\ get_unsafe(B', e, c) = get_unsafe(W, e, c)
        /\ DirectoryHolds(W) => DirectoryHolds(B')
        /\ get_entity_count(B') = get_entity_count(W)
        /\ get_archetype_count(B') = get_archetype_count(W)
        /\ get_entity_count(W') = 0
        /\ get_archetype_count(W') = 0
        /\ \A r \in Components : ~has_resource(W', r)
        /\ Members(W') = Members(EmptyWorld)
        /\ \A e \in Handles : ~alive_unsafe(W', e)
        /\ LET e == created(W')
               w1 == create_unsafe(W')
           IN  /\ e = Entity(0, 0)
               /\ alive_unsafe(w1, e)
               /\ get_entity_count(w1) = 1
               /\ \A c \in Components, v \in Values :
                     LET w2 == add_value(w1, e, c, v)
                     IN  /\ ~w2.ub
                         /\ has(w2, e, c)
                         /\ get_unsafe(w2, e, c) = Value(v)
                         /\ w2.fired = << >>
      ]_vars

\* b has taken over, by a move assignment that destroyed the resource b
\* held before, a World with a living entity that has a component and with
\* a resource, and a is empty
C28_Witness ==
    /\ run = "ok"
    /\ other.made
    /\ \E e \in Handles, c \in Components :
          alive_unsafe(B, e) /\ has(B, e, c)
    /\ \E r \in Components : has_resource(B, r)
    /\ Members(W) = Members(EmptyWorld)
    /\ Len(fired) = 1
    /\ fired[1].event = "destroy_resource"


---------------------------------------------------------------------------
(* C29 *)

\* the types whose index has been assigned
Assigned == {T \in Types : registry.ids[T] # Unassigned}

\* C29 (as claimed): component registry. Each type is assigned an index
\* once, the indices handed out are 0, 1, 2, ... in increasing order, every
\* use of a type observes the index the type was assigned, and no two
\* distinct types have the same index, also when the first uses of the same
\* type or of different types run concurrently on different threads.
C29_RegistryIndicesDistinct ==
    /\ \A T1, T2 \in Assigned :
          T1 # T2 => registry.ids[T1] # registry.ids[T2]
    /\ {registry.ids[T] : T \in Assigned} = 0 .. (Cardinality(Assigned) - 1)
    /\ registry.next >= Cardinality(Assigned)
    /\ \A t \in Threads, T \in Types :
          registry.got[t][T] # Unassigned =>
              registry.got[t][T] = registry.ids[T]


---------------------------------------------------------------------------
(* C30 *)

\* C30 (as claimed): component index overflow is detected at first use.
\* The first use of a type that would get an index outside
\* [0, RECS_MAX_COMPONENTS) fails fatally at that first use, so that no
\* type ever has an index >= RECS_MAX_COMPONENTS and no archetype key bit,
\* column slot or resource key is computed with one; component types and
\* resource types draw from the one index space.
C30_OverflowDetectedAtFirstUse ==
    [][/\ \A t \in Threads :
            (CheckLimit(t) /\ registry.next >= RECS_MAX_COMPONENTS) =>
                run' = "crashed"
       /\ \A T \in Types :
            registry'.ids[T] # Unassigned =>
                registry'.ids[T] < RECS_MAX_COMPONENTS
       /\ \A r \in DOMAIN resources' : r < RECS_MAX_COMPONENTS
       /\ \A e \in Living, T \in Types, v \in Values :
            AddOfType(e, T, v) => IndexOf(T) < RECS_MAX_COMPONENTS
      ]_vars


---------------------------------------------------------------------------
(* C31 *)

\* thread t is inside create_batch or destroy_batch, holding the mutex
InBatch(t) == thr[t].pc \in {"create_batch", "destroy_batch"}

\* C31 (as claimed): batch operations are single critical sections.
\* create_batch(n) holds the mutex from its first creation to its return
\* and returns n pairwise distinct alive handles, each creation raising
\* entity_count by one, and no step of another thread's World operation
\* happens while a thread is inside a batch; destroy_batch(list) destroys
\* each alive handle of the list exactly once and ignores duplicates and
\* stale handles, without ending the run.
C31_BatchesAreCriticalSections ==
    [][\A t \in Threads :
        /\ InBatch(t) =>
              /\ mutex = t
              /\ \A u \in Threads \ {t} : thr'[u] = thr[u]
        /\ T_CreateBatchStep(t) =>
              /\ run' = "ok"
              /\ get_entity_count(W') = get_entity_count(W) + 1
              /\ ~alive_unsafe(W, created(W))
              /\ alive_unsafe(W', created(W))
              /\ \A i \in DOMAIN thr[t].work : thr[t].work[i] # created(W)
        /\ T_CreateBatchEnd(t) =>
              /\ Len(thr[t].work) = thr[t].n
              /\ \A i \in DOMAIN thr[t].work : alive_unsafe(W, thr[t].work[i])
        /\ T_DestroyBatchStep(t) =>
              LET e == thr[t].work[thr[t].i + 1]
              IN  /\ run' = "ok"
                  /\ ~alive_unsafe(W', e)
                  /\ get_entity_count(W') =
                        IF alive_unsafe(W, e) THEN get_entity_count(W) - 1
                        ELSE get_entity_count(W)
                  /\ ~alive_unsafe(W, e) => Members(W') = Members(W)
      ]_vars


---------------------------------------------------------------------------
(* C32 *)

\* C32 (as claimed): a hook that re-enters deadlocks. The callbacks of
\* add are invoked while the calling thread holds the World mutex, and a
\* callback that has called a public operation of the same World never
\* returns from it.
C32_ReentrantHookNeverReturns ==
    [][\A t \in Threads :
        /\ thr[t].pc \in {"hooks", "hook_call"} => mutex = t
        /\ thr[t].pc = "hook_call" => thr'[t].pc = "hook_call"
      ]_vars


---------------------------------------------------------------------------
(* C33 *)

\* the packs have no component in common
DisjointPacks(cs, es) == \A a \in DOMAIN cs, b \in DOMAIN es : cs[a] # es[b]

\* the calls of a log, as a set
CallSet(log) == {log[j] : j \in DOMAIN log}

\* the calls of a log made for archetypes whose key has no component of es
NotExcluded(log, es) ==
    LET keep(r) == \A b \in DOMAIN es : ~KeyHas(archetypes[r.arch].key, es[b])
    IN  SelectSeq(log, keep)

\* C33 (as claimed): for every World and disjoint packs I and E,
\* query<I...>().exclude<E...>().each visits exactly the rows for_each<I...>
\* visits.
C33_QuerySameAsForEach ==
    run = "ok" =>
    \A cs \in Packs, es \in ExcludePacks, order \in Orders(archetypes) :
        DisjointPacks(cs, es) =>
            CallSet(query_each(Called(W), cs, es, order).fired)
                = CallSet(for_each(Called(W), cs, order).fired)

\* C33 (amended): for every World, disjoint packs I and E and order of the
\* archetypes, query<I...>().exclude<E...>().each makes the calls of
\* for_each<I...> that are for archetypes without any component of E, in the
\* same order and with the same values; the two visit the same rows when E
\* is empty or no archetype with rows has I and a component of E.
C33_QueryIsForEachMinusExcluded ==
    run = "ok" =>
    \A cs \in Packs, es \in ExcludePacks, order \in Orders(archetypes) :
        DisjointPacks(cs, es) =>
            LET q == query_each(Called(W), cs, es, order)
                f == for_each(Called(W), cs, order)
            IN  /\ ~q.ub /\ ~f.ub
                /\ q.fired = NotExcluded(f.fired, es)
                /\ (es = << >> \/ NotExcluded(f.fired, es) = f.fired)
                      <=> CallSet(q.fired) = CallSet(f.fired)

\* a query with an exclude pack disjoint from its include pack has just made
\* its calls, and for_each over the include pack makes more calls than that
C33_Witness ==
    /\ run = "ok"
    /\ fired # << >>
    /\ \E cs \in Packs, es \in Packs, order \in Orders(archetypes) :
          /\ DisjointPacks(cs, es)
          /\ fired = query_each(Called(W), cs, es, order).fired
          /\ Len(for_each(Called(W), cs, order).fired) > Len(fired)


---------------------------------------------------------------------------
(* C34 *)

\* the on_remove calls the destruction of e is said to make: one for each
\* component e has and each callback registered for it, with e
RemoveCallsFor(w, e) ==
    {[event |-> "remove", component |-> p[1], callback |-> p[2], entity |-> e] :
        p \in {q \in Components \X Callbacks :
                  /\ has(w, e, q[1])
                  /\ q[2] \in Registered(w.event_handlers[q[1]].on_remove)}}

\* the calls of a log without the World they saw
CallsMade(log) ==
    {[event |-> log[j].event, component |-> log[j].component,
      callback |-> log[j].callback, entity |-> log[j].entity] :
        j \in DOMAIN log}

\* C34 (as claimed): hooks on destruction. destroy(e) of an alive entity,
\* and destroy_batch of a list that holds it, invoke every on_remove
\* callback registered for each component e has, once, with e, after e has
\* been evicted from its archetype.
C34_DestroyFiresRemoveHooks ==
    [][/\ \A e \in ClientHandles :
            (Destroy(e) /\ alive_unsafe(W, e) /\ run' = "ok") =>
                /\ CallsMade(fired') = RemoveCallsFor(W, e)
                /\ Len(fired') = Cardinality(RemoveCallsFor(W, e))
                /\ \A j \in DOMAIN fired' : fired'[j].at = Seen(W')
       /\ \A e \in Living :
            LET w == destroy_batch(W, << e >>)
            IN  ~w.ub => CallsMade(w.fired) = RemoveCallsFor(W, e)
      ]_vars


---------------------------------------------------------------------------
(* C35 *)

\* C35 (as claimed): add<C>(e, args) on an alive entity e that already has
\* C returns, nothing is re-copied and the old value stays in place:
\* get<C>(e) afterwards is the value e had before the call, and no column
\* is written outside e's row (here: no column changes at all).
C35_AddValueExistingKeepsOld ==
    [][\A e \in Living, c \in Components, v \in Values :
          (has(W, e, c) /\ get_unsafe(W, e, c).kind = "value"
              /\ AddValue(e, c, v)) =>
              /\ run' = "ok"
              /\ get_unsafe(W', e, c) = get_unsafe(W, e, c)
              /\ archetypes' = archetypes]_vars


---------------------------------------------------------------------------
(* C36 *)

\* e is in row r of archetype a, and its directory entry says so
InRow(w, e, a, r) ==
    /\ alive_unsafe(w, e)
    /\ LocationOf(w, e) = [arch |-> a, index |-> r]
    /\ a \in DOMAIN w.archetypes
    /\ r < Len(w.archetypes[a].entities)
    /\ At(w.archetypes[a].entities, r) = e

\* the step is an add, a remove or a destroy of e
Evicts(e) ==
    \/ Destroy(e)
    \/ \E cs \in Packs : Add(e, cs) \/ Remove(e, cs)
    \/ \E c \in Components, v \in Values : AddValue(e, c, v)

\* archetype a after the eviction of row r: one row less in the entity
\* column and in every column of the key, the last row in row r with its
\* values and its directory entry, every other row where it was
SwapRemoved(a, r) ==
    LET old == archetypes[a]
        new == archetypes'[a]
        n == Len(old.entities)
        InKey == {c \in Components : KeyHas(old.key, c)}
    IN  /\ Len(new.entities) = n - 1
        /\ \A c \in InKey : Len(new.components[c].vec) = n - 1
        /\ r < n - 1 =>
              /\ At(new.entities, r) = At(old.entities, n - 1)
              /\ \A c \in InKey :
                    At(new.components[c].vec, r) = At(old.components[c].vec, n - 1)
              /\ LocationOf(W', At(old.entities, n - 1)) = [arch |-> a, index |-> r]
        /\ \A i \in 0 .. (n - 2) :
              i # r =>
                  /\ At(new.entities, i) = At(old.entities, i)
                  /\ \A c \in InKey :
                        At(new.components[c].vec, i) = At(old.components[c].vec, i)
                  /\ LocationOf(W', At(old.entities, i)) = LocationOf(W, At(old.entities, i))

\* C36 (as claimed): swap-remove bookkeeping. When an add, a remove or a
\* destroy evicts the entity e from row r of archetype A, the call returns,
\* the entity of A's last row is in row r afterwards with all its values and
\* its directory entry is (A, r), every other entity of A keeps its row and
\* its values, and A has one row less in the entity column and in every
\* column of its key; also when e was the last row.
C36_SwapRemoveBookkeeping ==
    [][\A e \in Living, a \in DOMAIN archetypes :
          \A r \in 0 .. (Len(archetypes[a].entities) - 1) :
              (InRow(W, e, a, r) /\ Evicts(e)) =>
                  /\ run' = "ok"
                  /\ SwapRemoved(a, r)]_vars


---------------------------------------------------------------------------
(* C37 *)

\* C37: archetypes are never removed. In every step of create, destroy,
\* add, remove, create_batch and destroy_batch, every archetype of the map
\* stays in the map under its key, so get_archetype_count() never decreases;
\* an archetype that loses its last row stays, with zero rows, and is
\* counted (the count is the size of the map); and an archetype that is in
\* the map when an entity acquires its key is the one the entity joins: its
\* columns are the ones it had, not new ones.
C37_ArchetypesNeverRemoved ==
    [][/\ get_archetype_count(W') >= get_archetype_count(W)
       /\ \A k \in DOMAIN archetypes :
             /\ k \in DOMAIN archetypes'
             /\ archetypes'[k].key = archetypes[k].key
             /\ \A c \in Components :
                   archetypes[k].components[c].data =>
                       archetypes'[k].components[c].data
      ]_vars

\* an archetype that had rows has none and is still counted, next to an
\* archetype that has rows
C37_Witness ==
    /\ run = "ok"
    /\ get_archetype_count(W) >= 2
    /\ \E k1, k2 \in DOMAIN archetypes :
          /\ archetypes[k1].entities = << >>
          /\ \E c \in Components : archetypes[k1].components[c].data
          /\ archetypes[k2].entities # << >>


---------------------------------------------------------------------------
(* C38 *)

\* the step is a remove<Cs...>(e) whose pack holds every component of e
StripsAll(e) ==
    /\ KeyOf(W, e) # 0
    /\ \E cs \in Packs :
          /\ \A c \in Components : KeyHas(KeyOf(W, e), c) => c \in Registered(cs)
          /\ Remove(e, cs)

\* e is alive in w and occupies a row of the archetype with the empty key
ResidentOfEmptyKey(w, e) ==
    /\ 0 \in DOMAIN w.archetypes
    /\ w.archetypes[0].key = 0
    /\ LocationOf(w, e).arch = 0
    /\ InRow(w, e, 0, LocationOf(w, e).index)

\* the step is an add, a remove or a destroy of e that returns and leaves
\* the directory and the row parity intact
KeepsInvariants(e) ==
    Evicts(e) => /\ run' = "ok"
                 /\ DirectoryHolds(W')
                 /\ RowParityOf(archetypes')

\* C38 (as claimed): removing the last component keeps the entity alive and
\* resident. When remove<Cs...>(e) strips every component of an alive e, the
\* call returns, e is alive and the entity count is what it was, e occupies
\* a row of the archetype with the empty key, and has<C>(e) is false for
\* every C; and an add, a remove or a destroy of an entity that is resident
\* of the empty-key archetype, in a World whose directory and row parity
\* hold, returns and leaves the directory and the row parity holding.
C38_RemoveLastComponentKeepsResident ==
    [][\A e \in Living :
          /\ (DirectoryHolds(W) /\ StripsAll(e)) =>
                /\ run' = "ok"
                /\ alive_unsafe(W', e)
                /\ get_entity_count(W') = get_entity_count(W)
                /\ ResidentOfEmptyKey(W', e)
                /\ \A c \in Components : ~has(W', e, c)
          /\ (/\ DirectoryHolds(W)
              /\ RowParityOf(archetypes)
              /\ ResidentOfEmptyKey(W, e)) => KeepsInvariants(e)]_vars


---------------------------------------------------------------------------
(* C39 *)

\* the storage a World object owns: the buffer of every column that has
\* one, and the value of every resource that has one
Owned(m) ==
    {[kind |-> "column", key |-> q[1], type |-> q[2]] :
        q \in {x \in (DOMAIN m.archetypes) \X Components :
                  m.archetypes[x[1]].components[x[2]].data}}
    \cup {[kind |-> "resource", key |-> 0, type |-> r] :
             r \in {x \in DOMAIN m.resources : m.resources[x].data}}

\* what the World objects in scope own, as a bag: a and, once made, b
OwnedBy(a, b, ended) ==
    (IF ended THEN EmptyBag ELSE SetToBag(Owned(a)))
        (+) (IF b.made THEN SetToBag(Owned(b.world)) ELSE EmptyBag)

\* the storage a call log entry destroys
BufferOf(entry) ==
    IF entry.event = "destroy_column"
    THEN [kind |-> "column", key |-> entry.key, type |-> entry.type]
    ELSE [kind |-> "resource", key |-> 0, type |-> entry.type]

\* the destructions of a call log, in order
Destructions(log) ==
    SelectSeq(log, LAMBDA x : x.event \in {"destroy_column", "destroy_resource"})

\* the destructions of a call log as a bag
Gone(log) ==
    LET d == Destructions(log)
        bufs == {BufferOf(d[i]) : i \in DOMAIN d}
    IN  [x \in bufs |-> Cardinality({i \in DOMAIN d : BufferOf(d[i]) = x})]

\* no resource is destroyed after a column
ResourcesFirst(log) ==
    LET d == Destructions(log)
    IN  \A i, j \in DOMAIN d :
            (d[i].event = "destroy_column" /\ d[j].event = "destroy_resource")
                => j < i

\* the step is one of the World-level operations, which create no storage
WorldLevel ==
    \/ Construct \/ MoveConstruct \/ MoveAssign \/ MoveAssignBack
    \/ MoveAssignSelf \/ DestructOther \/ DestructWorld

\* C39: exactly-once destruction of owned storage. In every step of a
\* program that fills Worlds, replaces resources, move-constructs,
\* move-assigns and destroys them: what the step destroys was owned by a
\* World in scope and is destroyed once; what was owned and is not destroyed
\* is owned afterwards (a move, an assignment or a destructor that creates
\* nothing leaves exactly that owned); resources are destroyed before
\* columns; a move leaves the source owning nothing, so that it destroys
\* nothing later; set_resource destroys the value it replaces and nothing
\* else; a move assignment and a destructor destroy everything the
\* destination or the dying World owned; and when the last World is gone
\* nothing is owned.
C39_ExactlyOnceDestruction ==
    [][LET pre == OwnedBy(Members(W), other, run = "ended")
           post == OwnedBy(Members(W'), other', run' = "ended")
           gone == Gone(fired')
       IN  run' \in {"ok", "ended"} =>
           /\ gone \sqsubseteq pre
           /\ (pre (-) gone) \sqsubseteq post
           /\ ResourcesFirst(fired')
           /\ WorldLevel => post = pre (-) gone
           /\ \A r \in Components :
                 (\E v \in Values : SetResource(r, v)) =>
                     gone = IF has_resource(W, r)
                            THEN SetToBag({BufferOf(Destroyed(r, 0))})
                            ELSE EmptyBag
           /\ (MoveConstruct \/ MoveAssign) =>
                 /\ Owned(Members(W')) = {}
                 /\ Owned(other'.world) = Owned(Members(W))
           /\ MoveAssign => gone = SetToBag(Owned(other.world))
           /\ MoveAssignBack =>
                 /\ Owned(other'.world) = {}
                 /\ Owned(Members(W')) = Owned(other.world)
                 /\ gone = SetToBag(Owned(Members(W)))
           /\ DestructOther => gone = SetToBag(Owned(other.world))
           /\ DestructWorld => /\ gone = SetToBag(Owned(Members(W)))
                               /\ post = EmptyBag
      ]_vars

\* the last World has gone out of scope and its destructor destroyed a
\* resource and then a column, in a program that had moved a World that
\* owned storage
C39_Witness ==
    /\ run = "ended"
    /\ ~other.made
    /\ Len(fired) >= 2
    /\ fired[1].event = "destroy_resource"
    /\ fired[Len(fired)].event = "destroy_column"

===========================================================================
